---------------------------- MODULE Spec2Model ----------------------------
(***************************************************************************)
(* A model of package caches: the LRU cache (lru.go), its order list       *)
(* (entity_list.go) and its entries (lru_entity.go); and of package        *)
(* collections: ConcurrentLinkedList, ConcurrentMap and ConcurrentSet.     *)
(*                                                                         *)
(* Entries live in a heap: a function from references (positive integers)  *)
(* to records [key, value, prev, next], Nil being Go's nil pointer.  Every *)
(* pointer operation of the source is one EXCEPT update of that heap, in   *)
(* the order the source performs it.  Go never shows an address, only the  *)
(* identity of references, so after a call the collector (Collect) drops   *)
(* the entries that are no longer reachable and renames the remaining      *)
(* references in walk order; a state stands for all its renamings.         *)
(*                                                                         *)
(* Spec runs the calls of the cache one at a time: one call is one action. *)
(* The specifications further down run the calls of several goroutines,    *)
(* one action per stretch of code that runs under a lock, and one action   *)
(* per access to shared memory that runs under none.                       *)
(***************************************************************************)
EXTENDS Integers, Sequences, FiniteSets, TLC

\* Largest limit NewLRU is called with.
MaxLimit == 2

\* Largest value in use; 0 is the zero value of V and is a value like any other.
MaxValue == 1

\* Number of goroutines of a concurrent run.
NumProcs == 2

Limits == 1..MaxLimit
Keys == 1..(MaxLimit + 1)
Values == 0..MaxValue
ZeroValue == 0
Nil == 0
Procs == 1..NumProcs

VARIABLES
    heap,      \* the lruEntity objects: reference -> [key, value, prev, next]
    mp,        \* LRU.mp: key -> reference
    head,      \* entityList.head
    tail,      \* entityList.tail
    limit,     \* LRU.limit
    lastOp,    \* the call that has just returned: its arguments and results
    inserted,  \* history: the keys inserted since the cache was last empty
    recent,    \* history: the present keys, the most recently used first
    goroutines, \* the goroutines of a concurrent run: their calls and locals
    clist,     \* a ConcurrentLinkedList: [items, first, last, size]
    listOp,    \* the call of the list that has just returned
    returned,  \* history: how often each listItem was returned by a remove call
    cmap,      \* ConcurrentMap.mp: key -> value
    cset,      \* ConcurrentSet.mp: the set of its keys
    mu,        \* ConcurrentMap.mu or LRU.mu: who holds the lock and who waits for it
    filled,    \* history: the map as it was before the goroutines started
    copied,    \* the map the last LRU.Copy returned, kept by its caller
    capacity,  \* ConcurrentMap.capacity
    mapOp,     \* the call of the map that has just returned
    setOp      \* the call of the set that has just returned

lruVars == <<heap, mp, head, tail, limit, lastOp, inserted, recent>>

collVars == <<clist, listOp, returned, cmap, cset, mu, filled, copied, setOp, capacity, mapOp>>

vars == <<heap, mp, head, tail, limit, lastOp, inserted, recent, goroutines,
          clist, listOp, returned, cmap, cset, mu, filled, copied, setOp,
          capacity, mapOp>>

-----------------------------------------------------------------------------
(* lruEntity *)

NewEntity(key, value) == [key |-> key, value |-> value, prev |-> Nil, next |-> Nil]

\* a reference no live entry has
NewRef(h) == IF DOMAIN h = {} THEN 1 ELSE 1 + CHOOSE i \in DOMAIN h : \A j \in DOMAIN h : j <= i

\* e.prev is left as it was
insertBefore_oneWay(h, e, entity) ==
    LET h1 == [h EXCEPT ![entity].prev = h[e].prev]
        h2 == [h1 EXCEPT ![entity].next = e]
    IN  IF h2[entity].prev # Nil
        THEN [h2 EXCEPT ![h2[entity].prev].next = entity]
        ELSE h2

insertBefore(h, e, entity) ==
    LET h1 == [h EXCEPT ![entity].prev = h[e].prev]
        h2 == [h1 EXCEPT ![entity].next = e]
        h3 == [h2 EXCEPT ![e].prev = entity]
    IN  IF h3[entity].prev # Nil
        THEN [h3 EXCEPT ![h3[entity].prev].next = entity]
        ELSE h3

\* entity.next.prev is left as it was
insertAfter_oneWay(h, e, entity) ==
    LET h1 == [h EXCEPT ![entity].next = h[e].next]
        h2 == [h1 EXCEPT ![entity].prev = e]
    IN  [h2 EXCEPT ![e].next = entity]

insertAfter(h, e, entity) ==
    LET h1 == [h EXCEPT ![entity].next = h[e].next]
        h2 == [h1 EXCEPT ![entity].prev = e]
        h3 == [h2 EXCEPT ![e].next = entity]
    IN  IF h3[entity].next # Nil
        THEN [h3 EXCEPT ![h3[entity].next].prev = entity]
        ELSE h3

removeYourself(h, e) ==
    LET h1 == IF h[e].prev # Nil
              THEN [h EXCEPT ![h[e].prev].next = h[e].next]
              ELSE h
    IN  IF h1[e].next # Nil
        THEN [h1 EXCEPT ![h1[e].next].prev = h1[e].prev]
        ELSE h1

-----------------------------------------------------------------------------
(* entityList.  A cache value c is the record [heap, mp, head, tail,       *)
(* limit, ev]: the fields of the state plus ev, the entry evictEntity was  *)
(* last called with during the running call (Nil when it was not called).  *)

setHead(c, entity) ==
    LET h1 == [c.heap EXCEPT ![entity].prev = Nil]
    IN  IF c.head # Nil
        THEN [c EXCEPT !.heap = insertBefore(h1, c.head, entity), !.head = entity]
        ELSE [c EXCEPT !.heap = h1, !.tail = entity, !.head = entity]

\* faulty variant: head is left on the removed entry
removeEntity_keepsHead(c, entity) ==
    LET h1 == removeYourself(c.heap, entity)
        c1 == [c EXCEPT !.heap = h1]
    IN  IF c1.tail = entity THEN [c1 EXCEPT !.tail = h1[entity].prev] ELSE c1

\* faulty variant: tail is left on the removed entry
removeEntity_keepsTail(c, entity) ==
    LET h1 == removeYourself(c.heap, entity)
        c1 == [c EXCEPT !.heap = h1]
    IN  IF c1.head = entity THEN [c1 EXCEPT !.head = h1[entity].next] ELSE c1

removeEntity(c, entity) ==
    LET h1 == removeYourself(c.heap, entity)
        c1 == [c EXCEPT !.heap = h1]
        c2 == IF c1.head = entity THEN [c1 EXCEPT !.head = h1[entity].next] ELSE c1
    IN  IF c2.tail = entity THEN [c2 EXCEPT !.tail = h1[entity].prev] ELSE c2

\* the entry is not taken out of the list first
moveToHead_noRemove(c, entity) ==
    IF c.head = entity
    THEN c
    ELSE setHead(c, entity)

moveToHead(c, entity) ==
    IF c.head = entity
    THEN c
    ELSE setHead(removeEntity(c, entity), entity)

\* faulty variant: tail is not reset
clear_headOnly(c) == [c EXCEPT !.head = Nil]

clear(c) == [c EXCEPT !.head = Nil, !.tail = Nil]

-----------------------------------------------------------------------------
(* LRU: the bodies of the methods, between Lock and Unlock *)

Has(m, key) == key \in DOMAIN m

MapPut(m, key, ref) == [k \in DOMAIN m \cup {key} |-> IF k = key THEN ref ELSE m[k]]

MapDelete(m, key) == [k \in DOMAIN m \ {key} |-> m[k]]

MapLen(m) == Cardinality(DOMAIN m)

\* faulty variant: the links of the entry are left as removeEntity left them
evictEntity_keepsLinks(c, entity) ==
    LET c1 == removeEntity(c, entity)
    IN  [c1 EXCEPT !.mp = MapDelete(c1.mp, c1.heap[entity].key), !.ev = entity]

\* faulty variant: the key stays in the index
evictEntity_keepsIndex(c, entity) ==
    LET c1 == removeEntity(c, entity)
        h2 == [c1.heap EXCEPT ![entity].prev = Nil, ![entity].next = Nil]
    IN  [c1 EXCEPT !.heap = h2, !.ev = entity]

evictEntity(c, entity) ==
    LET c1 == removeEntity(c, entity)
        h2 == [c1.heap EXCEPT ![entity].prev = Nil, ![entity].next = Nil]
    IN  [c1 EXCEPT !.heap = h2, !.mp = MapDelete(c1.mp, h2[entity].key), !.ev = entity]

\* faulty variant: a limit that is not positive is no limit
putEntity_positiveLimit(c, lim, entity) ==
    LET c1 == [c EXCEPT !.mp = MapPut(c.mp, c.heap[entity].key, entity)]
        c2 == setHead(c1, entity)
    IN  IF lim > 0 /\ MapLen(c2.mp) > lim THEN evictEntity(c2, c2.tail) ELSE c2

\* faulty variant: the limit is compared one too late
putEntity_lateEvict(c, lim, entity) ==
    LET c1 == [c EXCEPT !.mp = MapPut(c.mp, c.heap[entity].key, entity)]
        c2 == setHead(c1, entity)
    IN  IF MapLen(c2.mp) > lim + 1 THEN evictEntity(c2, c2.tail) ELSE c2

\* faulty variant: >= in place of >
putEntity_evictsAtLimit(c, lim, entity) ==
    LET c1 == [c EXCEPT !.mp = MapPut(c.mp, c.heap[entity].key, entity)]
        c2 == setHead(c1, entity)
    IN  IF MapLen(c2.mp) >= lim THEN evictEntity(c2, c2.tail) ELSE c2

\* faulty variant: the head is evicted in place of the tail
putEntity_evictsHead(c, lim, entity) ==
    LET c1 == [c EXCEPT !.mp = MapPut(c.mp, c.heap[entity].key, entity)]
        c2 == setHead(c1, entity)
    IN  IF MapLen(c2.mp) > lim THEN evictEntity(c2, c2.head) ELSE c2

putEntity(c, lim, entity) ==
    LET c1 == [c EXCEPT !.mp = MapPut(c.mp, c.heap[entity].key, entity)]
        c2 == setHead(c1, entity)
    IN  IF MapLen(c2.mp) > lim THEN evictEntity(c2, c2.tail) ELSE c2

\* entity = &lruEntity[K, V]{key: key, value: value}
Allocate(c, key, value) ==
    [ref |-> NewRef(c.heap),
     c |-> [c EXCEPT !.heap = c.heap @@ (NewRef(c.heap) :> NewEntity(key, value))]]

\* each *Body gives [c, ok, ret]: the cache after the call and the call's results
\* faulty variant: a present key is overwritten where it stands
PutBody_overwriteOnly(c, lim, key, value) ==
    IF ~Has(c.mp, key)
    THEN LET a == Allocate(c, key, value)
         IN  [c |-> putEntity(a.c, lim, a.ref), ok |-> TRUE, ret |-> ZeroValue]
    ELSE [c |-> [c EXCEPT !.heap[c.mp[key]].value = value], ok |-> TRUE, ret |-> ZeroValue]

PutBody(c, lim, key, value) ==
    IF ~Has(c.mp, key)
    THEN LET a == Allocate(c, key, value)
         IN  [c |-> putEntity(a.c, lim, a.ref), ok |-> TRUE, ret |-> ZeroValue]
    ELSE LET entity == c.mp[key]
             c1 == [c EXCEPT !.heap[entity].value = value]
         IN  [c |-> moveToHead(c1, entity), ok |-> TRUE, ret |-> ZeroValue]

\* faulty variant: a present key is moved to the head
PutIfAbsentBody_promotes(c, lim, key, value) ==
    IF ~Has(c.mp, key)
    THEN LET a == Allocate(c, key, value)
             c1 == putEntity(a.c, lim, a.ref)
         IN  [c |-> c1, ok |-> TRUE, ret |-> c1.heap[a.ref].value]
    ELSE [c |-> moveToHead(c, c.mp[key]), ok |-> FALSE, ret |-> c.heap[c.mp[key]].value]

PutIfAbsentBody(c, lim, key, value) ==
    IF ~Has(c.mp, key)
    THEN LET a == Allocate(c, key, value)
             c1 == putEntity(a.c, lim, a.ref)
         IN  [c |-> c1, ok |-> TRUE, ret |-> c1.heap[a.ref].value]
    ELSE [c |-> c, ok |-> FALSE, ret |-> c.heap[c.mp[key]].value]

\* faulty variant: a hit does not move the entry
GetBody_noPromote(c, key) ==
    IF Has(c.mp, key)
    THEN [c |-> c, ok |-> TRUE, ret |-> c.heap[c.mp[key]].value]
    ELSE [c |-> c, ok |-> FALSE, ret |-> ZeroValue]

\* faulty variant: a miss stores the zero value under the key
GetBody_missCreates(c, key) ==
    IF Has(c.mp, key)
    THEN LET entity == c.mp[key]
         IN  [c |-> moveToHead(c, entity), ok |-> TRUE, ret |-> c.heap[entity].value]
    ELSE LET a == Allocate(c, key, ZeroValue)
             c1 == [a.c EXCEPT !.mp = MapPut(a.c.mp, key, a.ref)]
         IN  [c |-> setHead(c1, a.ref), ok |-> FALSE, ret |-> ZeroValue]

GetBody(c, key) ==
    IF Has(c.mp, key)
    THEN LET entity == c.mp[key]
         IN  [c |-> moveToHead(c, entity), ok |-> TRUE, ret |-> c.heap[entity].value]
    ELSE [c |-> c, ok |-> FALSE, ret |-> ZeroValue]

EvictBody(c, key) ==
    IF Has(c.mp, key)
    THEN LET entity == c.mp[key]
         IN  [c |-> evictEntity(c, entity), ok |-> TRUE, ret |-> c.heap[entity].value]
    ELSE [c |-> c, ok |-> FALSE, ret |-> ZeroValue]

\* faulty variant: the cache is made anew, with the limit lost
ClearBody_resetsLimit(c) ==
    [c |-> clear([c EXCEPT !.mp = <<>>, !.limit = 0]), ok |-> TRUE, ret |-> ZeroValue]

ClearBody(c) ==
    [c |-> clear([c EXCEPT !.mp = <<>>]), ok |-> TRUE, ret |-> ZeroValue]

\* faulty variant: the capacity is returned in place of the size
SizeBody_returnsLimit(c) ==
    [c |-> c, ok |-> TRUE, ret |-> c.limit]

SizeBody(c) ==
    [c |-> c, ok |-> TRUE, ret |-> MapLen(c.mp)]

\* the value of every key of the index
Contents(h, m) == [k \in DOMAIN m |-> h[m[k]].value]

\* faulty variant: the keys with the zero value are left out
CopyBody_dropsZero(c) ==
    [c |-> c, ok |-> TRUE,
     ret |-> [k \in {j \in DOMAIN c.mp : c.heap[c.mp[j]].value # ZeroValue} |-> c.heap[c.mp[k]].value]]

CopyBody(c) ==
    [c |-> c, ok |-> TRUE, ret |-> Contents(c.heap, c.mp)]

\* fmt.Sprintf("LRU{limit: %d; size: %d}", lmt, sz)
StringBody(c) ==
    [c |-> c, ok |-> TRUE, ret |-> <<"LRU{limit: ", c.limit, "; size: ", MapLen(c.mp), "}">>]

-----------------------------------------------------------------------------
(* The garbage collector, and the walks the properties are stated with *)

\* the references met from e by following next, each once
RECURSIVE Walk(_, _, _)
Walk(h, e, seen) ==
    IF e = Nil \/ e \in seen
    THEN <<>>
    ELSE <<e>> \o Walk(h, h[e].next, seen \cup {e})

\* the references met from e by following prev, each once
RECURSIVE WalkBack(_, _, _)
WalkBack(h, e, seen) ==
    IF e = Nil \/ e \in seen
    THEN <<>>
    ELSE <<e>> \o WalkBack(h, h[e].prev, seen \cup {e})

Range(s) == {s[i] : i \in DOMAIN s}

RECURSIVE Closure(_, _)
Closure(h, refs) ==
    LET more == (refs \cup {h[r].prev : r \in refs} \cup {h[r].next : r \in refs}) \ {Nil}
    IN  IF more = refs THEN refs ELSE Closure(h, more)

\* what the cache still refers to
Reach(c) == Closure(c.heap, ({c.head, c.tail} \cup Range(c.mp)) \ {Nil})

RECURSIVE Ascending(_)
Ascending(refs) ==
    IF refs = {}
    THEN <<>>
    ELSE LET lo == CHOOSE r \in refs : \A q \in refs : r <= q
         IN  <<lo>> \o Ascending(refs \ {lo})

\* Unreachable entries are freed; the others are renamed 1..n, the order list
\* first, from head to tail.
Collect(c) ==
    LET walk == Walk(c.heap, c.head, {})
        ord == walk \o Ascending(Reach(c) \ Range(walk))
        new(r) == IF r = Nil THEN Nil ELSE CHOOSE i \in DOMAIN ord : ord[i] = r
    IN  [heap |-> [i \in DOMAIN ord |->
                      [key |-> c.heap[ord[i]].key,
                       value |-> c.heap[ord[i]].value,
                       prev |-> new(c.heap[ord[i]].prev),
                       next |-> new(c.heap[ord[i]].next)]],
         mp |-> [k \in DOMAIN c.mp |-> new(c.mp[k])],
         head |-> new(c.head),
         tail |-> new(c.tail)]

\* the keys of the order list from head to tail
Order(h, hd) == LET w == Walk(h, hd, {}) IN [i \in DOMAIN w |-> h[w[i]].key]

\* the keys of the order list from tail to head
OrderBack(h, tl) == LET w == WalkBack(h, tl, {}) IN [i \in DOMAIN w |-> h[w[i]].key]

-----------------------------------------------------------------------------
(* The state machine: one action per public method *)

Cur == [heap |-> heap, mp |-> mp, head |-> head, tail |-> tail, limit |-> limit, ev |-> Nil]

\* a sequence without the key k
Without(s, k) == SelectSeq(s, LAMBDA x : x # k)

\* the calls that read the cache and change nothing
Readers == {"Size", "Copy", "String"}

\* keys inserted one after the other into an empty cache, with no other call
\* in between; clean is FALSE once another call has changed the cache
Track(op, key, after) ==
    IF after.mp = <<>>
    THEN [clean |-> TRUE, keys |-> <<>>]
    ELSE IF op \in Readers
    THEN inserted
    ELSE IF inserted.clean /\ op \in {"Put", "PutIfAbsent"} /\ key \notin Range(inserted.keys)
    THEN [clean |-> TRUE, keys |-> Append(inserted.keys, key)]
    ELSE [clean |-> FALSE, keys |-> <<>>]

\* a use of a key: a Get that hits, a Put, a PutIfAbsent that inserts
IsUse(op, ok) == (op = "Get" /\ ok) \/ op = "Put" \/ (op = "PutIfAbsent" /\ ok)

\* the present keys by their last use, the most recent first
Recency(op, key, ok, after) ==
    LET used == IF IsUse(op, ok) THEN <<key>> \o Without(recent, key) ELSE recent
    IN  SelectSeq(used, LAMBDA k : k \in DOMAIN after.mp)

\* the call returns: r is what its body gave
Return(op, key, value, r) ==
    LET after == Collect(r.c)
    IN  /\ heap' = after.heap
        /\ mp' = after.mp
        /\ head' = after.head
        /\ tail' = after.tail
        /\ lastOp' = [op |-> op, key |-> key, value |-> value,
                      ok |-> r.ok, ret |-> r.ret,
                      evicted |-> IF r.c.ev = Nil THEN <<>> ELSE <<r.c.heap[r.c.ev]>>,
                      pre |-> Order(heap, head)]
        /\ inserted' = Track(op, key, after)
        /\ recent' = Recency(op, key, r.ok, after)
        /\ limit' = r.c.limit
        /\ UNCHANGED <<goroutines, collVars>>

\* a new list, a new map and a new set, none of them in use
\* &ConcurrentMap[K, V]{mp: make(map[K]V, capacity), capacity: capacity}: the
\* record of the call; hint is the size the last make(map[K]V, n) was given
NewMap(n) == [op |-> "NewConcurrentMap", key |-> 0, value |-> 0, hint |-> n, old |-> <<>>]

NoMap ==
    /\ capacity = 0
    /\ mapOp = NewMap(0)

OtherCollections ==
    /\ clist = [items |-> <<>>, first |-> Nil, last |-> Nil, size |-> 0]
    /\ listOp = [op |-> "NewConcurrentLinkedList"]
    /\ returned = <<>>
    /\ cmap = <<>>
    /\ cset = {}
    /\ mu = [readers |-> [p \in Procs |-> 0], pending |-> 0, writer |-> 0]
    /\ filled = <<>>
    /\ copied = <<>>
    /\ setOp = [op |-> "NewConcurrentSet"]

NoCollections ==
    /\ NoMap
    /\ OtherCollections

Init ==
    /\ heap = <<>>
    /\ mp = <<>>
    /\ head = Nil
    /\ tail = Nil
    /\ limit \in Limits
    /\ lastOp = [op |-> "NewLRU", key |-> 0, value |-> ZeroValue, ok |-> TRUE,
                 ret |-> ZeroValue, evicted |-> <<>>, pre |-> <<>>]
    /\ inserted = [clean |-> TRUE, keys |-> <<>>]
    /\ recent = <<>>
    /\ goroutines = <<>>
    /\ NoCollections

Put == \E key \in Keys, value \in Values :
    Return("Put", key, value, PutBody(Cur, limit, key, value))

PutIfAbsent == \E key \in Keys, value \in Values :
    Return("PutIfAbsent", key, value, PutIfAbsentBody(Cur, limit, key, value))

Get == \E key \in Keys :
    Return("Get", key, ZeroValue, GetBody(Cur, key))

Evict == \E key \in Keys :
    Return("Evict", key, ZeroValue, EvictBody(Cur, key))

Clear == Return("Clear", 0, ZeroValue, ClearBody(Cur))

SizeCall == Return("Size", 0, ZeroValue, SizeBody(Cur))

Copy == Return("Copy", 0, ZeroValue, CopyBody(Cur))

StringCall == Return("String", 0, ZeroValue, StringBody(Cur))

Next == Put \/ PutIfAbsent \/ Get \/ Evict \/ Clear \/ SizeCall \/ Copy \/ StringCall

Spec == Init /\ [][Next]_vars

-----------------------------------------------------------------------------
(* What the properties speak of *)

Inserts == {"Put", "PutIfAbsent"}

\* the state after the call r, as Return leaves it
After(r) == Collect(r.c)

-----------------------------------------------------------------------------
(* C1..C10: the contract of the LRU cache, one call at a time *)

\* C1: after every call of any sequence of calls on a cache with a positive
\* limit, the index holds at most limit keys, and that is what Size() returns.
C1_CapacityBound ==
    /\ MapLen(mp) <= limit
    /\ SizeBody(Cur).ret <= limit
    /\ lastOp.op = "Size" => lastOp.ret <= limit

\* an insertion into a full cache has just returned
C1_Witness ==
    /\ lastOp.op \in Inserts
    /\ Len(lastOp.pre) = limit
    /\ lastOp.key \notin Range(lastOp.pre)
    /\ MapLen(mp) = limit

\* C2: after every call the keys of the index are the keys met on the walk
\* from head to tail, each met once; every index entry refers to the entry
\* of the list that carries its key; Size() is the number of both.
C2_IndexAgreesWithList ==
    LET w == Walk(heap, head, {})
        ord == Order(heap, head)
    IN  /\ Range(ord) = DOMAIN mp
        /\ Cardinality(Range(ord)) = Len(ord)
        /\ \A k \in DOMAIN mp : mp[k] \in Range(w) /\ heap[mp[k]].key = k
        /\ w # <<>> => heap[w[Len(w)]].next = Nil /\ w[Len(w)] = tail
        /\ SizeBody(Cur).ret = Len(ord)
        /\ SizeBody(Cur).ret = Cardinality(DOMAIN mp)

\* a Get has moved an entry of a cache of two or more to the head
C2_Witness ==
    /\ lastOp.op = "Get"
    /\ lastOp.ok
    /\ Len(lastOp.pre) >= 2
    /\ Order(heap, head) # lastOp.pre

\* C3: limit + 1 distinct keys k1..k_{limit+1} inserted into an empty cache
\* leave k1 absent and the others present, the last one at the head and k2
\* at the tail, and Size() = limit.
C3_FirstInsertedIsEvicted ==
    (inserted.clean /\ Len(inserted.keys) = limit + 1) =>
        /\ inserted.keys[1] \notin DOMAIN mp
        /\ DOMAIN mp = {inserted.keys[i] : i \in 2..(limit + 1)}
        /\ Order(heap, head) = [i \in 1..limit |-> inserted.keys[limit + 2 - i]]
        /\ heap[head].key = inserted.keys[limit + 1]
        /\ heap[tail].key = inserted.keys[2]
        /\ SizeBody(Cur).ret = limit

\* the insertion of key limit + 1 has just returned, with limit >= 2
C3_Witness ==
    /\ inserted.clean
    /\ Len(inserted.keys) = limit + 1
    /\ limit >= 2
    /\ lastOp.op \in Inserts

\* the Get that has just returned hit the tail of a full cache
TailHit ==
    /\ lastOp.op = "Get"
    /\ lastOp.ok
    /\ Len(lastOp.pre) = limit
    /\ lastOp.key = lastOp.pre[limit]

\* the call that returns in this step is the insertion of a new key
InsertsNewKey ==
    /\ lastOp'.op \in Inserts
    /\ lastOp'.key \notin DOMAIN mp

\* C4 as stated: after a Get that hit the tail of a full cache the key is at
\* the head, and the next insertion of a new key evicts the key that was the
\* second to last before the Get, and not the key of the Get.
C4_AsStated ==
    [][(TailHit /\ InsertsNewKey) =>
          /\ Len(lastOp'.evicted) = 1
          /\ lastOp'.evicted[1].key # lastOp.key
          /\ limit >= 2 => lastOp'.evicted[1].key = lastOp.pre[limit - 1]]_vars

\* C4, amended: the same with limit >= 2.  With limit = 1 the key of the Get
\* is the only key, and the insertion evicts it.
C4_GetPromotes ==
    /\ [](TailHit => heap[head].key = lastOp.key)
    /\ []((TailHit /\ limit >= 2) => heap[tail].key = lastOp.pre[limit - 1])
    /\ [][(TailHit /\ limit >= 2 /\ InsertsNewKey) =>
             /\ Len(lastOp'.evicted) = 1
             /\ lastOp'.evicted[1].key = lastOp.pre[limit - 1]
             /\ lastOp'.evicted[1].key # lastOp.key
             /\ lastOp.key \in DOMAIN mp'
             /\ lastOp.pre[limit - 1] \notin DOMAIN mp']_vars

\* a Get has hit the tail of a full cache of two or more
C4_Witness == TailHit /\ limit >= 2 /\ heap[head].key = lastOp.key

\* C5: PutIfAbsent on a present key returns (false, the value of the key) and
\* changes neither the values, nor the order, nor the index.
C5_PutIfAbsentPresentKey ==
    [][(lastOp'.op = "PutIfAbsent" /\ lastOp'.key \in DOMAIN mp) =>
          /\ ~lastOp'.ok
          /\ lastOp'.ret = heap[mp[lastOp'.key]].value
          /\ lastOp'.evicted = <<>>
          /\ UNCHANGED <<heap, mp, head, tail, limit>>]_vars

\* PutIfAbsent with another value has returned false for the key at the tail
C5_Witness ==
    /\ lastOp.op = "PutIfAbsent"
    /\ ~lastOp.ok
    /\ lastOp.value # lastOp.ret
    /\ Len(lastOp.pre) >= 2
    /\ lastOp.key = lastOp.pre[Len(lastOp.pre)]
    /\ Order(heap, head) = lastOp.pre

C7_PutThenGet ==
    lastOp.op = "Put" =>
        /\ GetBody(Cur, lastOp.key).ok
        /\ GetBody(Cur, lastOp.key).ret = lastOp.value

\* Put has inserted a new key into a full cache
C7_Witness ==
    /\ lastOp.op = "Put"
    /\ lastOp.key \notin Range(lastOp.pre)
    /\ Len(lastOp.pre) = limit
    /\ Len(lastOp.evicted) = 1

\* C8: after Clear, Size() is 0, head and tail are nil, every Get misses, a
\* second Clear changes nothing, limit is what it was, and a Put inserts its
\* key at the head and the tail.
C8_Clear ==
    /\ [](lastOp.op = "Clear" =>
            /\ SizeBody(Cur).ret = 0
            /\ head = Nil /\ tail = Nil
            /\ \A k \in Keys : ~GetBody(Cur, k).ok /\ GetBody(Cur, k).ret = ZeroValue
            /\ After(ClearBody(Cur)) = [heap |-> heap, mp |-> mp, head |-> head, tail |-> tail]
            /\ \A k \in Keys, v \in Values :
                   LET a == After(PutBody(Cur, limit, k, v))
                   IN  /\ a.head # Nil /\ a.head = a.tail
                       /\ a.heap[a.head] = NewEntity(k, v)
                       /\ a.mp = (k :> a.head))
    /\ [][lastOp'.op = "Clear" => limit' = limit]_vars

\* Clear has returned on a cache that held two or more keys
C8_Witness ==
    /\ lastOp.op = "Clear"
    /\ Len(lastOp.pre) >= 2

C10_GetAbsentKey ==
    [][(lastOp'.op = "Get" /\ lastOp'.key \notin DOMAIN mp) =>
          /\ ~lastOp'.ok
          /\ lastOp'.ret = ZeroValue
          /\ UNCHANGED <<heap, mp, head, tail, limit>>]_vars

\* Get has missed on a cache that holds keys
C10_Witness ==
    /\ lastOp.op = "Get"
    /\ ~lastOp.ok
    /\ lastOp.pre # <<>>
    /\ Order(heap, head) = lastOp.pre

-----------------------------------------------------------------------------
(* C13..C16: the contract of the LRU cache, one call at a time (continued) *)

\* C13: after any sequence of calls the order list, from head to tail, is
\* the present keys by their most recent use, the most recent first; a use
\* is a Get that hits, a Put, or a PutIfAbsent that inserts.
C13_OrderIsRecency == Order(heap, head) = recent

\* a PutIfAbsent on the least recently used of two or more keys has left it
\* at the tail
C13_Witness ==
    /\ lastOp.op = "PutIfAbsent"
    /\ ~lastOp.ok
    /\ Len(recent) >= 2
    /\ recent[Len(recent)] = lastOp.key
    /\ heap[tail].key = lastOp.key

\* C14: a Put or PutIfAbsent removes another key if and only if it inserts a
\* new key into a full cache; it then removes the key at the tail, that one
\* only, and never the key it inserts.
C14_EvictsTailWhenFull ==
    [][lastOp'.op \in Inserts =>
          LET removed == DOMAIN mp \ DOMAIN mp'
              overflow == lastOp'.key \notin DOMAIN mp /\ MapLen(mp) = limit
          IN  /\ removed # {} <=> overflow
              /\ overflow =>
                    /\ removed = {heap[tail].key}
                    /\ Len(lastOp'.evicted) = 1
                    /\ lastOp'.evicted[1].key = heap[tail].key
                    /\ lastOp'.key \in DOMAIN mp'
              /\ ~overflow => lastOp'.evicted = <<>>]_vars

\* an insertion has evicted the tail of a full cache
C14_Witness ==
    /\ lastOp.op \in Inserts
    /\ Len(lastOp.evicted) = 1
    /\ Len(lastOp.pre) = limit
    /\ lastOp.evicted[1].key = lastOp.pre[limit]
    /\ lastOp.key \in DOMAIN mp

\* C15: no call changes limit.
C15_LimitIsFixed == [][limit' = limit]_vars

\* a Clear has emptied a cache that held keys, and limit is a limit still
C15_Witness ==
    /\ lastOp.op = "Clear"
    /\ lastOp.pre # <<>>
    /\ limit \in Limits

\* C16: Size() returns the number of keys of the index and changes neither
\* the index, nor a value, nor the order.
C16_SizeReadsOnly ==
    [][lastOp'.op = "Size" =>
          /\ lastOp'.ret = Cardinality(DOMAIN mp)
          /\ UNCHANGED <<heap, mp, head, tail, limit>>]_vars

\* Size() has returned for a cache that is neither empty nor full
C16_Witness ==
    /\ lastOp.op = "Size"
    /\ lastOp.ret >= 1
    /\ lastOp.ret < limit
    /\ lastOp.ret = Len(lastOp.pre)

-----------------------------------------------------------------------------
(* The cache called by several goroutines.  Each goroutine makes one call.  *)
(* lru.mu excludes every other holder for the time a body runs, so the     *)
(* stretch from Lock to Unlock is one action.  PutIfAbsent reads            *)
(* entity.value after Unlock (return !ok, entity.value): that read is an    *)
(* action of its own, and it returns what the entry holds at that time.     *)

Idle == [pc |-> "idle", op |-> "", key |-> 0, value |-> ZeroValue, ok |-> FALSE,
         ret |-> ZeroValue, entity |-> Nil, after |-> {}]

\* Collect, with the entries the goroutines hold in their locals kept alive
CollectKeep(c, keep) ==
    LET walk == Walk(c.heap, c.head, {})
        held == {keep[p] : p \in DOMAIN keep} \ {Nil}
        live == Closure(c.heap, Reach(c) \cup held)
        ord == walk \o Ascending(live \ Range(walk))
        new(r) == IF r = Nil THEN Nil ELSE CHOOSE i \in DOMAIN ord : ord[i] = r
    IN  [heap |-> [i \in DOMAIN ord |->
                      [key |-> c.heap[ord[i]].key,
                       value |-> c.heap[ord[i]].value,
                       prev |-> new(c.heap[ord[i]].prev),
                       next |-> new(c.heap[ord[i]].next)]],
         mp |-> [k \in DOMAIN c.mp |-> new(c.mp[k])],
         head |-> new(c.head),
         tail |-> new(c.tail),
         keep |-> [p \in DOMAIN keep |-> new(keep[p])]]

\* PutIfAbsent from Lock to Unlock: [c, ok, entity], entity being the local
\* the return statement reads afterwards
PutIfAbsentLocked(c, lim, key, value) ==
    IF ~Has(c.mp, key)
    THEN LET a == Allocate(c, key, value)
         IN  [c |-> putEntity(a.c, lim, a.ref), ok |-> TRUE, entity |-> a.ref]
    ELSE [c |-> c, ok |-> FALSE, entity |-> c.mp[key]]

ConcInit ==
    /\ heap = <<>>
    /\ mp = <<>>
    /\ head = Nil
    /\ tail = Nil
    /\ limit \in Limits
    /\ lastOp = [op |-> "NewLRU", key |-> 0, value |-> ZeroValue, ok |-> TRUE,
                 ret |-> ZeroValue, evicted |-> <<>>, pre |-> <<>>]
    /\ inserted = [clean |-> TRUE, keys |-> <<>>]
    /\ recent = <<>>
    /\ goroutines = [p \in Procs |-> Idle]
    /\ NoCollections

\* the goroutine calls a method: which calls had returned by then is kept
Invoke(p) ==
    /\ goroutines[p].pc = "idle"
    /\ \E op \in {"Put", "PutIfAbsent", "Get", "Evict", "Clear", "Size"}, key \in Keys, value \in Values :
          /\ op \in {"Clear", "Size"} => key = 1
          /\ op \in {"Get", "Evict", "Clear", "Size"} => value = ZeroValue
          /\ goroutines' = [goroutines EXCEPT ![p] =
                [Idle EXCEPT !.pc = "called", !.op = op,
                             !.key = IF op \in {"Clear", "Size"} THEN 0 ELSE key,
                             !.value = value,
                             !.after = {q \in Procs : goroutines[q].pc = "returned"}]]
    /\ UNCHANGED <<lruVars, collVars>>

\* the entries the goroutines hold, with that of p set to e
Held(p, e) == [q \in Procs |-> IF q = p THEN e ELSE goroutines[q].entity]

\* the body c ran under the lock; the goroutine goes on at pc
Unlock(p, c, pc, ok, ret, entity) ==
    LET after == CollectKeep(c, Held(p, entity))
    IN  /\ heap' = after.heap
        /\ mp' = after.mp
        /\ head' = after.head
        /\ tail' = after.tail
        /\ limit' = c.limit
        /\ goroutines' = [q \in Procs |->
              IF q = p
              THEN [goroutines[p] EXCEPT !.pc = pc, !.ok = ok, !.ret = ret,
                                         !.entity = after.keep[p]]
              ELSE [goroutines[q] EXCEPT !.entity = after.keep[q]]]
        /\ UNCHANGED <<lastOp, inserted, recent, collVars>>

\* a method whose results are set before Unlock
Returns(p, r) == Unlock(p, r.c, "returned", r.ok, r.ret, Nil)

LockedPut(p) ==
    /\ goroutines[p].pc = "called" /\ goroutines[p].op = "Put"
    /\ Returns(p, PutBody(Cur, limit, goroutines[p].key, goroutines[p].value))

LockedPutIfAbsent(p) ==
    /\ goroutines[p].pc = "called" /\ goroutines[p].op = "PutIfAbsent"
    /\ LET r == PutIfAbsentLocked(Cur, limit, goroutines[p].key, goroutines[p].value)
       IN  Unlock(p, r.c, "unlocked", r.ok, ZeroValue, r.entity)

\* return !ok, entity.value
ReadEntityValue(p) ==
    /\ goroutines[p].pc = "unlocked"
    /\ goroutines[p].entity \in DOMAIN heap
    /\ Unlock(p, Cur, "returned", goroutines[p].ok, heap[goroutines[p].entity].value, Nil)

LockedGet(p) ==
    /\ goroutines[p].pc = "called" /\ goroutines[p].op = "Get"
    /\ Returns(p, GetBody(Cur, goroutines[p].key))

LockedEvict(p) ==
    /\ goroutines[p].pc = "called" /\ goroutines[p].op = "Evict"
    /\ Returns(p, EvictBody(Cur, goroutines[p].key))

LockedClear(p) ==
    /\ goroutines[p].pc = "called" /\ goroutines[p].op = "Clear"
    /\ Returns(p, ClearBody(Cur))

LockedSize(p) ==
    /\ goroutines[p].pc = "called" /\ goroutines[p].op = "Size"
    /\ Returns(p, SizeBody(Cur))

ConcNext == \E p \in Procs :
    \/ Invoke(p)
    \/ LockedPut(p)
    \/ LockedPutIfAbsent(p)
    \/ ReadEntityValue(p)
    \/ LockedGet(p)
    \/ LockedEvict(p)
    \/ LockedClear(p)
    \/ LockedSize(p)

SpecConc == ConcInit /\ [][ConcNext]_vars

-----------------------------------------------------------------------------
(* C11, C12: the calls of several goroutines *)

AllReturned == \A p \in Procs : goroutines[p].pc = "returned"

\* C11: a PutIfAbsent that found its key absent and inserted it returns
\* (true, value), value being its own argument, whatever the other
\* goroutines do.
C11_ReturnsItsArgument ==
    \A p \in Procs :
        (goroutines[p].pc = "returned" /\ goroutines[p].op = "PutIfAbsent" /\ goroutines[p].ok)
            => goroutines[p].ret = goroutines[p].value

\* the call of goroutine record g, run alone on the cache c
RunAlone(c, g) ==
    CASE g.op = "Put" -> PutBody(c, c.limit, g.key, g.value)
      [] g.op = "PutIfAbsent" -> PutIfAbsentBody(c, c.limit, g.key, g.value)
      [] g.op = "Get" -> GetBody(c, g.key)
      [] g.op = "Evict" -> EvictBody(c, g.key)
      [] g.op = "Clear" -> ClearBody(c)
      [] g.op = "Size" -> SizeBody(c)

\* the calls of the goroutines order[i], order[i + 1], ... run one at a time
\* from the cache c: the cache at the end, and whether every call returned
\* what it returned in the concurrent run
RECURSIVE RunInOrder(_, _, _)
RunInOrder(c, order, i) ==
    IF i > Len(order)
    THEN [c |-> c, same |-> TRUE]
    ELSE LET g == goroutines[order[i]]
             r == RunAlone(c, g)
             rest == RunInOrder([r.c EXCEPT !.ev = Nil], order, i + 1)
         IN  [c |-> rest.c, same |-> rest.same /\ r.ok = g.ok /\ r.ret = g.ret]

\* the orders of the calls that keep a call that had returned before
\* another was made in front of it
Orders ==
    {order \in [1..NumProcs -> Procs] :
        /\ \A i, j \in 1..NumProcs : i # j => order[i] # order[j]
        /\ \A i, j \in 1..NumProcs : order[i] \in goroutines[order[j]].after => i < j}

EmptyCache == [heap |-> <<>>, mp |-> <<>>, head |-> Nil, tail |-> Nil, limit |-> limit, ev |-> Nil]

\* C12: once every call has returned, there is an order of the calls,
\* keeping the order of calls that did not overlap, in which the calls run
\* one at a time return the same results and leave the same contents and
\* the same head-to-tail order.
C12_Linearizable ==
    AllReturned =>
        \E order \in Orders :
            LET run == RunInOrder(EmptyCache, order, 1)
            IN  /\ run.same
                /\ Order(run.c.heap, run.c.head) = Order(heap, head)
                /\ Contents(run.c.heap, run.c.mp) = Contents(heap, mp)

-----------------------------------------------------------------------------
(* package collections: listItem (list_item.go) and ConcurrentLinkedList   *)
(* (concurrent_linked_list.go).  A list l is [items, first, last, size],   *)
(* items being the heap of its listItem objects: reference -> [prev, next, *)
(* value].  An item that was removed stays in the heap with the links it   *)
(* had, as in the source.                                                  *)

\* Largest number of listItem objects in the heap of a list.
MaxItems == 3

ErrIndexOutOfRange == "index is out of range"
NoError == "nil"
Indexes == (0 - 1)..(MaxItems + 1)

\* &listItem[T]{value: value}
NewItem(value) == [prev |-> Nil, next |-> Nil, value |-> value]

listItem_insert(h, li, item) ==
    [h EXCEPT ![item].prev = h[li].prev, ![item].next = li, ![li].prev = item]

listItem_append(h, li, item) ==
    [h EXCEPT ![item].prev = li, ![item].next = h[li].next, ![li].next = item]

\* li.next.prev is left as it was
listItem_removeYourself_prevOnly(h, li) ==
    IF h[li].prev # Nil THEN [h EXCEPT ![h[li].prev].next = h[li].next] ELSE h

listItem_removeYourself(h, li) ==
    LET h1 == IF h[li].prev # Nil THEN [h EXCEPT ![h[li].prev].next = h[li].next] ELSE h
    IN  IF h1[li].next # Nil THEN [h1 EXCEPT ![h1[li].next].prev = h1[li].prev] ELSE h1

\* if clist.first == item { clist.first = item.next }
relinkFirst(l, item) ==
    IF l.first = item THEN [l EXCEPT !.first = l.items[item].next] ELSE l

\* if clist.last == item { clist.last = item.prev }
relinkLast(l, item) ==
    IF l.last = item THEN [l EXCEPT !.last = l.items[item].prev] ELSE l

removeItem(l, item) ==
    LET l1 == [l EXCEPT !.items = listItem_removeYourself(l.items, item)]
        l2 == relinkLast(relinkFirst(l1, item), item)
    IN  [l |-> [l2 EXCEPT !.size = l2.size - 1], res |-> l.items[item].value]

\* the loop of getByIndex: the item i + k steps of next after item, for
\* i + k = index, or nil when the chain ends before
\* the count starts at one
RECURSIVE ItemAt_fromOne(_, _, _, _)
ItemAt_fromOne(h, item, i, index) ==
    IF item = Nil THEN Nil
    ELSE IF i + 1 = index THEN item
    ELSE ItemAt_fromOne(h, h[item].next, i + 1, index)

RECURSIVE ItemAt(_, _, _, _)
ItemAt(h, item, i, index) ==
    IF item = Nil THEN Nil
    ELSE IF i = index THEN item
    ELSE ItemAt(h, h[item].next, i + 1, index)

getByIndex_clamped(l, index) ==
    IF l.size > 0
    THEN LET at == IF index < 0 THEN 0 ELSE IF index >= l.size THEN l.size - 1 ELSE index
         IN  [item |-> ItemAt(l.items, l.first, 0, at), err |-> NoError]
    ELSE [item |-> Nil, err |-> ErrIndexOutOfRange]

getByIndex(l, index) ==
    LET item == IF index >= 0 /\ index < l.size
                THEN ItemAt(l.items, l.first, 0, index)
                ELSE Nil
    IN  IF item # Nil
        THEN [item |-> item, err |-> NoError]
        ELSE [item |-> Nil, err |-> ErrIndexOutOfRange]

\* the methods: the list after the call, what the call returns, and the
\* item it took out of the list
Result(l, ret, ok, err, item) == [l |-> l, ret |-> ret, ok |-> ok, err |-> err, item |-> item]

Removes(l, item, err) ==
    LET r == removeItem(l, item) IN Result(r.l, r.res, TRUE, err, item)

RemoveFirstBody(l) ==
    IF l.first # Nil
    THEN Removes(l, l.first, NoError)
    ELSE Result(l, ZeroValue, FALSE, NoError, Nil)

RemoveLastBody(l) ==
    IF l.last # Nil
    THEN Removes(l, l.last, NoError)
    ELSE Result(l, ZeroValue, FALSE, NoError, Nil)

ListRemoveBody(l, index) ==
    LET g == getByIndex(l, index)
    IN  IF g.err = NoError
        THEN Removes(l, g.item, NoError)
        ELSE Result(l, ZeroValue, FALSE, g.err, Nil)

ListGetBody(l, index) ==
    LET g == getByIndex(l, index)
    IN  IF g.err # NoError
        THEN Result(l, ZeroValue, FALSE, g.err, Nil)
        ELSE Result(l, l.items[g.item].value, TRUE, NoError, Nil)

\* the list with a new item, not linked yet, and the reference to it
AllocateItem(l, value) ==
    [ref |-> Len(l.items) + 1, l |-> [l EXCEPT !.items = Append(l.items, NewItem(value))]]

\* the new item is not linked to the first item
AddFirstBody_unlinked(l, value) ==
    LET a == AllocateItem(l, value)
        l1 == IF a.l.first # Nil THEN a.l ELSE [a.l EXCEPT !.last = a.ref]
    IN  Result([l1 EXCEPT !.first = a.ref, !.size = l1.size + 1], ZeroValue, TRUE, NoError, Nil)

AddFirstBody(l, value) ==
    LET a == AllocateItem(l, value)
        l1 == IF a.l.first # Nil
              THEN [a.l EXCEPT !.items = listItem_insert(a.l.items, a.l.first, a.ref)]
              ELSE [a.l EXCEPT !.last = a.ref]
    IN  Result([l1 EXCEPT !.first = a.ref, !.size = l1.size + 1], ZeroValue, TRUE, NoError, Nil)

addLastInner(l, item) ==
    LET l1 == IF l.last # Nil
              THEN [l EXCEPT !.items = listItem_append(l.items, l.last, item)]
              ELSE [l EXCEPT !.first = item]
    IN  [l1 EXCEPT !.last = item, !.size = l1.size + 1]

AddLastBody(l, value) ==
    LET a == AllocateItem(l, value)
    IN  Result(addLastInner(a.l, a.ref), ZeroValue, TRUE, NoError, Nil)

\* needToRemove, as the set of the values it holds for
Preds == SUBSET Values

\* what an occurrence method returns: the list after the call, the value
\* and the index
Occurrence(l, ret, index) == [l |-> l, ret |-> ret, index |-> index]

\* for item != nil { index++; if needToRemove(item.value) { return ... };
\* item = item.next }, index being the count before this item
RECURSIVE RemoveFirstOccurrenceLoop(_, _, _, _)
RemoveFirstOccurrenceLoop(l, item, index, needToRemove) ==
    IF item = Nil THEN Occurrence(l, ZeroValue, 0 - 1)
    ELSE IF l.items[item].value \in needToRemove
         THEN LET r == removeItem(l, item) IN Occurrence(r.l, r.res, index + 1)
         ELSE RemoveFirstOccurrenceLoop(l, l.items[item].next, index + 1, needToRemove)

RemoveFirstOccurrenceBody(l, needToRemove) ==
    RemoveFirstOccurrenceLoop(l, l.first, 0 - 1, needToRemove)

\* the search starts at the first item
RemoveLastOccurrenceBody_fromFirst(l, needToRemove) ==
    RemoveFirstOccurrenceLoop(l, l.first, 0 - 1, needToRemove)

\* for item != nil { index--; if needToRemove(item.value) { return ... };
\* item = item.prev }
RECURSIVE RemoveLastOccurrenceLoop(_, _, _, _)
RemoveLastOccurrenceLoop(l, item, index, needToRemove) ==
    IF item = Nil THEN Occurrence(l, ZeroValue, 0 - 1)
    ELSE IF l.items[item].value \in needToRemove
         THEN LET r == removeItem(l, item) IN Occurrence(r.l, r.res, index - 1)
         ELSE RemoveLastOccurrenceLoop(l, l.items[item].prev, index - 1, needToRemove)

RemoveLastOccurrenceBody(l, needToRemove) ==
    RemoveLastOccurrenceLoop(l, l.last, l.size, needToRemove)

\* for item != nil { if needRemove(item.value) { clist.removeItem(item);
\* result++ }; item = item.next }
RECURSIVE RemoveAllLoop(_, _, _, _)
RemoveAllLoop(l, item, result, needRemove) ==
    IF item = Nil THEN Occurrence(l, result, 0)
    ELSE IF l.items[item].value \in needRemove
         THEN LET l1 == removeItem(l, item).l
              IN  RemoveAllLoop(l1, l1.items[item].next, result + 1, needRemove)
         ELSE RemoveAllLoop(l, l.items[item].next, result, needRemove)

\* the loop ends at the first removal
RemoveAllBody_firstOnly(l, needRemove) ==
    LET r == RemoveFirstOccurrenceLoop(l, l.first, 0 - 1, needRemove)
    IN  Occurrence(r.l, IF r.index < 0 THEN 0 ELSE 1, 0)

RemoveAllBody(l, needRemove) ==
    RemoveAllLoop(l, l.first, 0, needRemove)

ListClearBody(l) ==
    Result([l EXCEPT !.first = Nil, !.last = Nil, !.size = 0], ZeroValue, TRUE, NoError, Nil)

ListSizeBody(l) == Result(l, l.size, TRUE, NoError, Nil)

\* the items from item on, following next; from item back, following prev
RECURSIVE ItemsFrom(_, _)
ItemsFrom(h, item) ==
    IF item = Nil THEN <<>> ELSE <<item>> \o ItemsFrom(h, h[item].next)

RECURSIVE ItemsBackFrom(_, _)
ItemsBackFrom(h, item) ==
    IF item = Nil THEN <<>> ELSE <<item>> \o ItemsBackFrom(h, h[item].prev)

\* the values of the list, first to last, as ToArray walks them; and last
\* to first
Elements(l) ==
    LET is == ItemsFrom(l.items, l.first) IN [i \in 1..Len(is) |-> l.items[is[i]].value]

ElementsBack(l) ==
    LET is == ItemsBackFrom(l.items, l.last) IN [i \in 1..Len(is) |-> l.items[is[i]].value]

\* the collector: when the items reached from first hold no reference to
\* another item, the other items are dropped and the items of the list are
\* renamed in the order of the list; no goroutine holds an item then
ListCollect(l) ==
    LET is == ItemsFrom(l.items, l.first)
        live == {is[i] : i \in 1..Len(is)} \cup {Nil}
        ren(r) == IF r = Nil THEN Nil ELSE CHOOSE i \in 1..Len(is) : is[i] = r
    IN  IF /\ l.last \in live
           /\ \A i \in 1..Len(is) : l.items[is[i]].prev \in live /\ l.items[is[i]].next \in live
        THEN [items |-> [i \in 1..Len(is) |->
                           [prev |-> ren(l.items[is[i]].prev),
                            next |-> ren(l.items[is[i]].next),
                            value |-> l.items[is[i]].value]],
              first |-> ren(l.first), last |-> ren(l.last), size |-> l.size]
        ELSE l

-----------------------------------------------------------------------------
(* SpecList: the calls of one list, one at a time *)

\* no cache in use
NoCache ==
    /\ heap = <<>>
    /\ mp = <<>>
    /\ head = Nil
    /\ tail = Nil
    /\ limit = 1
    /\ lastOp = [op |-> "none"]
    /\ inserted = [clean |-> TRUE, keys |-> <<>>]
    /\ recent = <<>>

ListInit ==
    /\ NoCache
    /\ NoCollections
    /\ goroutines = <<>>

ListReturn(op, index, value, r) ==
    /\ clist' = ListCollect(r.l)
    /\ listOp' = [op |-> op, index |-> index, value |-> value,
                  ret |-> r.ret, ok |-> r.ok, err |-> r.err]
    /\ UNCHANGED <<lruVars, goroutines, returned, cmap, cset, mu, filled, setOp, copied, capacity, mapOp>>

AddFirst == \E value \in Values :
    /\ Len(clist.items) < MaxItems
    /\ ListReturn("AddFirst", 0, value, AddFirstBody(clist, value))

AddLast == \E value \in Values :
    /\ Len(clist.items) < MaxItems
    /\ ListReturn("AddLast", 0, value, AddLastBody(clist, value))

RemoveFirst == ListReturn("RemoveFirst", 0, ZeroValue, RemoveFirstBody(clist))

RemoveLast == ListReturn("RemoveLast", 0, ZeroValue, RemoveLastBody(clist))

ListRemove == \E index \in Indexes :
    ListReturn("Remove", index, ZeroValue, ListRemoveBody(clist, index))

ListGet == \E index \in Indexes :
    ListReturn("Get", index, ZeroValue, ListGetBody(clist, index))

ListClear == ListReturn("Clear", 0, ZeroValue, ListClearBody(clist))

ListSize == ListReturn("Size", 0, ZeroValue, ListSizeBody(clist))

\* an occurrence method called with needToRemove returns r
OccurrenceReturn(op, needToRemove, r) ==
    /\ clist' = ListCollect(r.l)
    /\ listOp' = [op |-> op, needToRemove |-> needToRemove, ret |-> r.ret, index |-> r.index]
    /\ UNCHANGED <<lruVars, goroutines, returned, cmap, cset, mu, filled, setOp, copied, capacity, mapOp>>

RemoveFirstOccurrence == \E needToRemove \in Preds :
    OccurrenceReturn("RemoveFirstOccurrence", needToRemove,
                     RemoveFirstOccurrenceBody(clist, needToRemove))

RemoveLastOccurrence == \E needToRemove \in Preds :
    OccurrenceReturn("RemoveLastOccurrence", needToRemove,
                     RemoveLastOccurrenceBody(clist, needToRemove))

RemoveAll == \E needRemove \in Preds :
    OccurrenceReturn("RemoveAll", needRemove, RemoveAllBody(clist, needRemove))

ListNext ==
    \/ AddFirst \/ AddLast \/ RemoveFirst \/ RemoveLast \/ ListRemove \/ ListGet
    \/ ListClear \/ ListSize
    \/ RemoveFirstOccurrence \/ RemoveLastOccurrence \/ RemoveAll

SpecList == ListInit /\ [][ListNext]_vars

\* C18: Get(index) and Remove(index) with index < 0 or index >= Size()
\* return the zero value and ErrIndexOutOfRange and leave the elements,
\* their order and the size as they were; with 0 <= index < Size() they
\* return a nil error.
C18_IndexOutOfRange ==
    [][listOp'.op \in {"Get", "Remove"} =>
          IF listOp'.index < 0 \/ listOp'.index >= ListSizeBody(clist).ret
          THEN /\ listOp'.ret = ZeroValue
               /\ listOp'.err = ErrIndexOutOfRange
               /\ Elements(clist') = Elements(clist)
               /\ ElementsBack(clist') = ElementsBack(clist)
               /\ clist'.size = clist.size
          ELSE listOp'.err = NoError]_vars

\* Remove(size) has returned the error on a list of two or more elements,
\* none of them the zero value
C18_Witness ==
    /\ listOp.op = "Remove"
    /\ listOp.index = clist.size
    /\ listOp.err = ErrIndexOutOfRange
    /\ Len(Elements(clist)) >= 2
    /\ \A i \in 1..Len(Elements(clist)) : Elements(clist)[i] # ZeroValue

-----------------------------------------------------------------------------
(* SpecListConc: the calls of several goroutines on one list.  A method    *)
(* that holds the mutex for its whole body is one action.  RemoveFirst     *)
(* takes no lock: each of its accesses to the list is an action of its     *)
(* own, and runs between the locked bodies of the other goroutines.  The   *)
(* goroutines hold items that were removed, so no item is collected and    *)
(* MaxItems bounds the items a run allocates.                              *)

ListIdle == [pc |-> "idle", item |-> Nil, size |-> 0]

ListConcInit ==
    /\ NoCache
    /\ NoCollections
    /\ goroutines = [p \in Procs |-> ListIdle]

\* no goroutine has dereferenced nil
NoPanic == \A p \in Procs : goroutines[p].pc # "panic"

\* the count of item, one more
Bump(b, item) ==
    IF item \in DOMAIN b THEN [b EXCEPT ![item] = @ + 1] ELSE b @@ (item :> 1)

\* a remove call returns: the item whose value it returns is recorded
Records(r) == returned' = IF r.item # Nil THEN Bump(returned, r.item) ELSE returned

ListUnchanged == UNCHANGED <<lruVars, listOp, cmap, cset, mu, filled, setOp, copied, capacity, mapOp>>

\* goroutine p goes on at pc
Goes(p, pc) == goroutines' = [goroutines EXCEPT ![p].pc = pc]

LockedAddFirst(p) == \E value \in Values :
    /\ NoPanic /\ goroutines[p].pc = "idle"
    /\ Len(clist.items) < MaxItems
    /\ clist' = AddFirstBody(clist, value).l
    /\ UNCHANGED <<goroutines, returned>> /\ ListUnchanged

LockedAddLast(p) == \E value \in Values :
    /\ NoPanic /\ goroutines[p].pc = "idle"
    /\ Len(clist.items) < MaxItems
    /\ clist' = AddLastBody(clist, value).l
    /\ UNCHANGED <<goroutines, returned>> /\ ListUnchanged

LockedRemoveLast(p) ==
    /\ NoPanic /\ goroutines[p].pc = "idle"
    /\ LET r == RemoveLastBody(clist) IN clist' = r.l /\ Records(r)
    /\ UNCHANGED goroutines /\ ListUnchanged

LockedRemove(p) == \E index \in Indexes :
    /\ NoPanic /\ goroutines[p].pc = "idle"
    /\ LET r == ListRemoveBody(clist, index) IN clist' = r.l /\ Records(r)
    /\ UNCHANGED goroutines /\ ListUnchanged

\* if clist.first != nil
RemoveFirstCheck(p) ==
    /\ NoPanic /\ goroutines[p].pc = "idle"
    /\ Goes(p, IF clist.first # Nil THEN "load" ELSE "idle")
    /\ UNCHANGED <<clist, returned>> /\ ListUnchanged

\* clist.removeItem(clist.first): the argument is read; res := item.value
\* dereferences it
RemoveFirstLoad(p) ==
    /\ NoPanic /\ goroutines[p].pc = "load"
    /\ goroutines' = [goroutines EXCEPT
          ![p].pc = IF clist.first # Nil THEN "unlink" ELSE "panic",
          ![p].item = clist.first]
    /\ UNCHANGED <<clist, returned>> /\ ListUnchanged

\* item.removeYourself()
RemoveFirstUnlink(p) ==
    /\ NoPanic /\ goroutines[p].pc = "unlink"
    /\ clist' = [clist EXCEPT !.items = listItem_removeYourself(clist.items, goroutines[p].item)]
    /\ Goes(p, "first")
    /\ UNCHANGED returned /\ ListUnchanged

RemoveFirstRelinkFirst(p) ==
    /\ NoPanic /\ goroutines[p].pc = "first"
    /\ clist' = relinkFirst(clist, goroutines[p].item)
    /\ Goes(p, "last")
    /\ UNCHANGED returned /\ ListUnchanged

RemoveFirstRelinkLast(p) ==
    /\ NoPanic /\ goroutines[p].pc = "last"
    /\ clist' = relinkLast(clist, goroutines[p].item)
    /\ Goes(p, "size")
    /\ UNCHANGED returned /\ ListUnchanged

\* clist.size--: the read
RemoveFirstReadSize(p) ==
    /\ NoPanic /\ goroutines[p].pc = "size"
    /\ goroutines' = [goroutines EXCEPT ![p].pc = "dec", ![p].size = clist.size]
    /\ UNCHANGED <<clist, returned>> /\ ListUnchanged

\* clist.size--: the write; return res, true
RemoveFirstWriteSize(p) ==
    /\ NoPanic /\ goroutines[p].pc = "dec"
    /\ clist' = [clist EXCEPT !.size = goroutines[p].size - 1]
    /\ returned' = Bump(returned, goroutines[p].item)
    /\ goroutines' = [goroutines EXCEPT ![p] = ListIdle]
    /\ ListUnchanged

ListConcNext == \E p \in Procs :
    \/ LockedAddFirst(p)
    \/ LockedAddLast(p)
    \/ LockedRemoveLast(p)
    \/ LockedRemove(p)
    \/ RemoveFirstCheck(p)
    \/ RemoveFirstLoad(p)
    \/ RemoveFirstUnlink(p)
    \/ RemoveFirstRelinkFirst(p)
    \/ RemoveFirstRelinkLast(p)
    \/ RemoveFirstReadSize(p)
    \/ RemoveFirstWriteSize(p)

SpecListConc == ListConcInit /\ [][ListConcNext]_vars

\* C17: whenever no call is under way, size is the number of items reached
\* from first by following next, and no item has been returned by two
\* remove calls.
C17_ThreadSafe ==
    (\A p \in Procs : goroutines[p].pc = "idle") =>
        /\ clist.size = Len(ItemsFrom(clist.items, clist.first))
        /\ \A item \in DOMAIN returned : returned[item] <= 1

-----------------------------------------------------------------------------
(* package collections: ConcurrentMap (concurrent_map.go) and              *)
(* ConcurrentSet (concurrent_set.go), used as their tests use them: every  *)
(* goroutine goes through the keys 1..Count and tries to put, or to add,   *)
(* each of them.  A method is one action: its body runs under the lock.    *)
(* PutIfNotExistsDoubleCheck is two, Get and PutIfNotExists, and so is     *)
(* !set.Contains(v) && set.Add(v).                                         *)

\* Number of keys each goroutine goes through.
Count == 3

Counted == 1..Count

\* the value of key is returned in place of the value the map holds
PutIfNotExistsBody_returnsNew(m, key, value) ==
    [m |-> IF Has(m, key) THEN m ELSE MapPut(m, key, value), ok |-> ~Has(m, key), ret |-> value]

\* val, ok := cmap.mp[key]
MapGetBody(m, key) ==
    IF Has(m, key) THEN [ret |-> m[key], ok |-> TRUE] ELSE [ret |-> ZeroValue, ok |-> FALSE]

PutIfNotExistsBody_overwrites(m, key, value) ==
    [m |-> MapPut(m, key, value), ok |-> TRUE, ret |-> value]

PutIfNotExistsBody(m, key, value) ==
    IF Has(m, key)
    THEN [m |-> m, ok |-> FALSE, ret |-> m[key]]
    ELSE [m |-> MapPut(m, key, value), ok |-> TRUE, ret |-> value]

\* the goroutine is about to call with key 1; results holds what its calls
\* returned, key by key, and the method that returned it
Starting(pc) == [pc |-> pc, key |-> 1, results |-> <<>>]

MapInit ==
    /\ NoCache
    /\ NoCollections
    /\ goroutines = [p \in Procs |-> Starting("Get")]

CollUnchanged == UNCHANGED <<lruVars, clist, listOp, returned, mu, filled, setOp, copied, capacity, mapOp>>

\* the call of p with its key returns (ok, ret) from method via; p goes on
\* with the next key, calling first, up to the key last
Returned(p, ok, ret, via, first, last) ==
    LET g == goroutines[p]
    IN  goroutines' = [goroutines EXCEPT ![p] =
            [pc |-> IF g.key < last THEN first ELSE "done",
             key |-> g.key + 1,
             results |-> Append(g.results, [ok |-> ok, ret |-> ret, via |-> via])]]

\* old, ok := cmap.Get(key); if ok { return false, old }
DoubleCheckGet(p) ==
    /\ goroutines[p].pc = "Get"
    /\ LET old == MapGetBody(cmap, goroutines[p].key)
       IN  IF old.ok
           THEN Returned(p, FALSE, old.ret, "Get", "Get", Count)
           ELSE goroutines' = [goroutines EXCEPT ![p].pc = "PutIfNotExists"]
    /\ UNCHANGED <<cmap, cset>> /\ CollUnchanged

\* return cmap.PutIfNotExists(key, value), the value being the number of
\* the goroutine
DoubleCheckPut(p) ==
    /\ goroutines[p].pc = "PutIfNotExists"
    /\ LET r == PutIfNotExistsBody(cmap, goroutines[p].key, p)
       IN  cmap' = r.m /\ Returned(p, r.ok, r.ret, "PutIfNotExists", "Get", Count)
    /\ UNCHANGED cset /\ CollUnchanged

MapNext == \E p \in Procs : DoubleCheckGet(p) \/ DoubleCheckPut(p)

SpecMap == MapInit /\ [][MapNext]_vars

\* the goroutines whose call with key has returned, and those it returned
\* true to
Called(key) == {p \in Procs : Len(goroutines[p].results) >= key}

Winners(key) == {p \in Called(key) : goroutines[p].results[key].ok}

\* C19: of the calls PutIfNotExistsDoubleCheck(key, p) of the goroutines p,
\* at most one returns true; once all have returned, one has returned
\* (true, its value), the others (false, that value), and the map holds
\* that value for the key.
C19_OneWinner ==
    \A key \in Counted :
        /\ Cardinality(Winners(key)) <= 1
        /\ Called(key) = Procs =>
              \E w \in Procs :
                  /\ Winners(key) = {w}
                  /\ Has(cmap, key) /\ cmap[key] = w
                  /\ \A p \in Procs : goroutines[p].results[key].ret = w

\* all calls with key 1 have returned, and one of them found the key absent
\* in Get and present in PutIfNotExists
C19_Witness ==
    /\ Called(1) = Procs
    /\ \E p \in Procs :
          /\ ~goroutines[p].results[1].ok
          /\ goroutines[p].results[1].via = "PutIfNotExists"

\* PutIfNotExistsDoubleCheck with no other call between its Get and its
\* PutIfNotExists
PutIfNotExistsDoubleCheckBody(m, key, value) ==
    LET old == MapGetBody(m, key)
    IN  IF old.ok
        THEN [m |-> m, ok |-> FALSE, ret |-> old.ret]
        ELSE PutIfNotExistsBody(m, key, value)

\* C23: on the map of any state, PutIfNotExists(key, value) maps an absent
\* key to value and returns (true, value), and returns (false, the value of
\* the key) for a present key, the map staying as it is;
\* PutIfNotExistsDoubleCheck run alone returns the same and leaves the same
\* map.
C23_PutIfNotExists ==
    \A key \in Counted, value \in Values \cup Procs :
        LET r == PutIfNotExistsBody(cmap, key, value)
        IN  /\ IF key \in DOMAIN cmap
               THEN r.ok = FALSE /\ r.ret = cmap[key] /\ r.m = cmap
               ELSE /\ r.ok = TRUE /\ r.ret = value
                    /\ DOMAIN r.m = DOMAIN cmap \cup {key}
                    /\ r.m[key] = value
                    /\ \A k \in DOMAIN cmap : r.m[k] = cmap[k]
            /\ PutIfNotExistsDoubleCheckBody(cmap, key, value) = r

\* PutIfNotExists has stored the value of one goroutine for key 1 and has
\* returned (false, that value) to the other for key 1, and key 2 is absent
C23_Witness ==
    /\ Has(cmap, 1) /\ ~Has(cmap, 2)
    /\ \E p \in Procs, q \in Procs :
          /\ Len(goroutines[p].results) >= 1 /\ Len(goroutines[q].results) >= 1
          /\ goroutines[p].results[1] = [ok |-> TRUE, ret |-> p, via |-> "PutIfNotExists"]
          /\ goroutines[q].results[1] = [ok |-> FALSE, ret |-> p, via |-> "PutIfNotExists"]

-----------------------------------------------------------------------------
(* SpecMapRemove: the main goroutine puts values for the keys 1, 2, ...,   *)
(* then the goroutines go through the keys 1..Removals and remove each,    *)
(* goroutine 1 with RemoveIfExists, the others with                        *)
(* RemoveIfExistsDoubleCheck: Get, then RemoveIfExists.                    *)

Removals == 2

\* the key stays in the map
RemoveIfExistsBody_keepsKey(m, key) ==
    IF Has(m, key)
    THEN [m |-> m, ok |-> TRUE, ret |-> m[key]]
    ELSE [m |-> m, ok |-> FALSE, ret |-> ZeroValue]

RemoveIfExistsBody(m, key) ==
    IF Has(m, key)
    THEN [m |-> MapDelete(m, key), ok |-> TRUE, ret |-> m[key]]
    ELSE [m |-> m, ok |-> FALSE, ret |-> ZeroValue]

\* RemoveIfExistsDoubleCheck with no other call between its Get and its
\* RemoveIfExists
RemoveIfExistsDoubleCheckBody(m, key) ==
    LET old == MapGetBody(m, key)
    IN  IF ~old.ok
        THEN [m |-> m, ok |-> FALSE, ret |-> old.ret]
        ELSE RemoveIfExistsBody(m, key)

MapRemoveInit ==
    /\ NoCache
    /\ NoCollections
    /\ goroutines = [p \in Procs |-> Starting("call")]

MapRemoveUnchanged == UNCHANGED <<lruVars, clist, listOp, returned, cset, mu, setOp, copied, capacity, mapOp>>

\* cm.Put(key, value) for the next key, before any goroutine has started
Fill == \E value \in Values :
    /\ \A p \in Procs : goroutines[p] = Starting("call")
    /\ MapLen(cmap) < Removals
    /\ cmap' = MapPut(cmap, MapLen(cmap) + 1, value)
    /\ filled' = cmap'
    /\ UNCHANGED goroutines /\ MapRemoveUnchanged

\* old, ok := cmap.Get(key); if !ok { return false, old }
RemoveGet(p) ==
    /\ p # 1
    /\ goroutines[p].pc = "call"
    /\ LET old == MapGetBody(cmap, goroutines[p].key)
       IN  IF ~old.ok
           THEN Returned(p, FALSE, old.ret, "Get", "call", Removals)
           ELSE goroutines' = [goroutines EXCEPT ![p].pc = "RemoveIfExistsDoubleCheck"]
    /\ UNCHANGED <<cmap, filled>> /\ MapRemoveUnchanged

\* cmap.RemoveIfExists(key), called by the goroutine or by
\* RemoveIfExistsDoubleCheck
RemoveLocked(p) ==
    /\ \/ goroutines[p].pc = "call" /\ p = 1
       \/ goroutines[p].pc = "RemoveIfExistsDoubleCheck"
    /\ LET r == RemoveIfExistsBody(cmap, goroutines[p].key)
           via == IF goroutines[p].pc = "call" THEN "RemoveIfExists" ELSE "RemoveIfExistsDoubleCheck"
       IN  cmap' = r.m /\ Returned(p, r.ok, r.ret, via, "call", Removals)
    /\ UNCHANGED filled /\ MapRemoveUnchanged

MapRemoveNext == Fill \/ \E p \in Procs : RemoveGet(p) \/ RemoveLocked(p)

SpecMapRemove == MapRemoveInit /\ [][MapRemoveNext]_vars

\* C24: on the map of any state, RemoveIfExists(key) and
\* RemoveIfExistsDoubleCheck(key) run alone delete a present key and return
\* (true, its value), and return (false, zero value) for an absent key, the
\* map staying as it is.  Of the calls of the goroutines for one key at
\* most one returns true; once all have returned, one has returned true
\* and the value if the key was present, none if it was absent, the others
\* (false, zero value), and the key is absent.
C24_RemoveIfExists ==
    \A key \in 1..Removals :
        /\ \A r \in {RemoveIfExistsBody(cmap, key), RemoveIfExistsDoubleCheckBody(cmap, key)} :
              IF key \in DOMAIN cmap
              THEN /\ r.ok = TRUE /\ r.ret = cmap[key]
                   /\ DOMAIN r.m = DOMAIN cmap \ {key}
                   /\ \A k \in DOMAIN r.m : r.m[k] = cmap[k]
              ELSE r.ok = FALSE /\ r.ret = ZeroValue /\ r.m = cmap
        /\ Cardinality(Winners(key)) <= 1
        /\ Called(key) = Procs =>
              /\ ~Has(cmap, key)
              /\ Cardinality(Winners(key)) = (IF Has(filled, key) THEN 1 ELSE 0)
              /\ \A p \in Procs :
                    goroutines[p].results[key].ret =
                        (IF p \in Winners(key) THEN filled[key] ELSE ZeroValue)

\* every goroutine has removed key 1, whose value was not the zero value;
\* one of them found it in Get and no more in RemoveIfExists
C24_Witness ==
    /\ Called(1) = Procs
    /\ Has(filled, 1) /\ filled[1] # ZeroValue
    /\ \E p \in Procs :
          /\ ~goroutines[p].results[1].ok
          /\ goroutines[p].results[1].via = "RemoveIfExistsDoubleCheck"

\* _, res := cset.mp[value]
ContainsBody(s, value) == value \in s

AddBody_alwaysTrue(s, value) == [s |-> s \cup {value}, ok |-> TRUE]

AddBody(s, value) ==
    IF value \notin s
    THEN [s |-> s \cup {value}, ok |-> TRUE]
    ELSE [s |-> s, ok |-> FALSE]

SetSizeBody(s) == Cardinality(s)

SetInit ==
    /\ NoCache
    /\ NoCollections
    /\ goroutines = [p \in Procs |-> Starting("Contains")]

\* !set.Contains(j): when the set contains j the goroutine goes on with
\* j + 1
SetContains(p) ==
    /\ goroutines[p].pc = "Contains"
    /\ IF ContainsBody(cset, goroutines[p].key)
       THEN Returned(p, FALSE, ZeroValue, "Contains", "Contains", Count)
       ELSE goroutines' = [goroutines EXCEPT ![p].pc = "Add"]
    /\ UNCHANGED <<cmap, cset>> /\ CollUnchanged

\* && set.Add(j)
SetAdd(p) ==
    /\ goroutines[p].pc = "Add"
    /\ LET r == AddBody(cset, goroutines[p].key)
       IN  cset' = r.s /\ Returned(p, r.ok, ZeroValue, "Add", "Contains", Count)
    /\ UNCHANGED cmap /\ CollUnchanged

SetNext == \E p \in Procs : SetContains(p) \/ SetAdd(p)

SpecSet == SetInit /\ [][SetNext]_vars

\* adds[num]: how often Add has returned true to goroutine p
Adds(p) == Cardinality({j \in 1..Len(goroutines[p].results) : goroutines[p].results[j].ok})

\* sum += v, for the goroutines 1..n
RECURSIVE Sum(_)
Sum(n) == IF n = 0 THEN 0 ELSE Adds(n) + Sum(n - 1)

\* C20: Add returns true for a value to one goroutine and no more; the
\* successful adds of all goroutines are as many as the set has values,
\* and once every goroutine is through, as many as there are values, all of
\* them in the set.
C20_OneAddPerValue ==
    /\ \A value \in Counted : Cardinality(Winners(value)) = (IF value \in cset THEN 1 ELSE 0)
    /\ Sum(NumProcs) = SetSizeBody(cset)
    /\ (\A p \in Procs : goroutines[p].pc = "done") =>
          Sum(NumProcs) = Count /\ cset = Counted

\* every goroutine is through, and Add has returned false to one of them
\* that had found the value missing
C20_Witness ==
    /\ \A p \in Procs : goroutines[p].pc = "done"
    /\ \E p \in Procs, value \in Counted :
          /\ ~goroutines[p].results[value].ok
          /\ goroutines[p].results[value].via = "Add"

-----------------------------------------------------------------------------
(* SpecMapLock: the lock of the map, cmap.mu, a sync.RWMutex.  Goroutine 1 *)
(* calls ForEachRead and ForEach with a callback that calls one method of  *)
(* the same map for every pair; the other goroutines call Put and Clear.   *)
(* The mutex is modelled as Go documents it: Lock excludes the other       *)
(* writers first (pending), then waits until no reader holds the lock;     *)
(* RLock waits while a writer holds the lock or is pending.                *)

Reading == {"ForEachRead", "Get", "Size"}
Modifying == {"Put", "Remove", "PutIfNotExists", "Clear", "TrimToSize"}

\* ForEach holds only the read lock
LockOf_forEachReads(method) ==
    IF method \in Reading \cup {"ForEach"} THEN "RLock" ELSE "Lock"

\* the lock a method takes: cmap.mu.RLock() or cmap.mu.Lock()
LockOf(method) == IF method \in Reading THEN "RLock" ELSE "Lock"

\* RLock returns while a writer holds the lock
CanRLock_duringWrite(m) == m.pending = 0

\* RLock returns
CanRLock(m) == m.writer = 0 /\ m.pending = 0

\* Lock gets ahead of the other writers
CanRequest(m) == m.writer = 0 /\ m.pending = 0

\* Lock returns to the pending writer p
CanLock(m, p) == m.pending = p /\ \A q \in Procs : m.readers[q] = 0

\* what a modifying method does to the map under the lock
MapWrite(m, method, key, value) ==
    CASE method = "Put" -> MapPut(m, key, value)
      [] method = "Remove" -> MapDelete(m, key)
      [] method = "PutIfNotExists" -> PutIfNotExistsBody(m, key, value).m
      [] method = "Clear" -> <<>>
      [] OTHER -> m

MapLockIdle == [pc |-> "idle", outer |-> "", inner |-> "", todo |-> {}, entered |-> FALSE]

MapLockInit ==
    /\ NoCache
    /\ NoCollections
    /\ goroutines = [p \in Procs |-> MapLockIdle]

MapLockUnchanged == UNCHANGED <<lruVars, clist, listOp, returned, cset, filled, setOp, copied, capacity, mapOp>>

\* goroutine 1 calls ForEachRead(f) or ForEach(f), f calling the method
\* inner: it takes the read lock and starts the loop, or asks for the write
\* lock
IterCall(p) == \E outer \in {"ForEachRead", "ForEach"}, inner \in {"Get", "Size"} \cup Modifying :
    /\ p = 1 /\ goroutines[p].pc = "idle"
    /\ IF LockOf(outer) = "RLock"
       THEN /\ CanRLock(mu)
            /\ mu' = [mu EXCEPT !.readers[p] = @ + 1]
            /\ goroutines' = [goroutines EXCEPT ![p] =
                  [pc |-> "range", outer |-> outer, inner |-> inner,
                   todo |-> DOMAIN cmap, entered |-> FALSE]]
       ELSE /\ CanRequest(mu)
            /\ mu' = [mu EXCEPT !.pending = p]
            /\ goroutines' = [goroutines EXCEPT ![p] =
                  [pc |-> "Lock", outer |-> outer, inner |-> inner,
                   todo |-> {}, entered |-> FALSE]]
    /\ UNCHANGED cmap /\ MapLockUnchanged

\* another goroutine calls Put or Clear and asks for the write lock
PlainCall(p) == \E method \in {"Put", "Clear"} :
    /\ p # 1 /\ goroutines[p].pc = "idle"
    /\ CanRequest(mu)
    /\ mu' = [mu EXCEPT !.pending = p]
    /\ goroutines' = [goroutines EXCEPT ![p] = [MapLockIdle EXCEPT !.pc = "Lock", !.outer = method]]
    /\ UNCHANGED cmap /\ MapLockUnchanged

\* cmap.mu.Lock() returns.  ForEach starts its loop; Put and Clear change
\* the map, unlock and return; so does the method called by f, and f
\* returns
Acquire(p) ==
    /\ goroutines[p].pc \in {"Lock", "innerLock"}
    /\ CanLock(mu, p)
    /\ CASE goroutines[p].pc = "innerLock" ->
              /\ mu' = [mu EXCEPT !.pending = 0]
              /\ \E k \in goroutines[p].todo :
                    /\ cmap' = MapWrite(cmap, goroutines[p].inner, k, p)
                    /\ goroutines' = [goroutines EXCEPT ![p].pc = "range", ![p].todo = @ \ {k}]
         [] goroutines[p].pc = "Lock" /\ goroutines[p].outer = "ForEach" ->
              /\ mu' = [mu EXCEPT !.pending = 0, !.writer = p]
              /\ goroutines' = [goroutines EXCEPT ![p].pc = "range", ![p].todo = DOMAIN cmap]
              /\ UNCHANGED cmap
         [] OTHER ->
              /\ mu' = [mu EXCEPT !.pending = 0]
              /\ \E key \in Counted :
                    cmap' = MapWrite(cmap, goroutines[p].outer, key, p)
              /\ goroutines' = [goroutines EXCEPT ![p] = MapLockIdle]
    /\ MapLockUnchanged

\* f(k, v) is called, and calls the method
Callback(p) ==
    /\ goroutines[p].pc = "range"
    /\ goroutines[p].todo # {}
    /\ goroutines' = [goroutines EXCEPT ![p].pc = "inner", ![p].entered = TRUE]
    /\ UNCHANGED <<cmap, mu>> /\ MapLockUnchanged

\* the method called by f takes the read lock, reads, unlocks and returns;
\* f returns
InnerRead(p) == \E k \in goroutines[p].todo :
    /\ goroutines[p].pc = "inner"
    /\ LockOf(goroutines[p].inner) = "RLock"
    /\ CanRLock(mu)
    /\ goroutines' = [goroutines EXCEPT ![p].pc = "range", ![p].todo = @ \ {k}]
    /\ UNCHANGED <<cmap, mu>> /\ MapLockUnchanged

\* the method called by f asks for the write lock
InnerRequest(p) ==
    /\ goroutines[p].pc = "inner"
    /\ LockOf(goroutines[p].inner) = "Lock"
    /\ CanRequest(mu)
    /\ mu' = [mu EXCEPT !.pending = p]
    /\ goroutines' = [goroutines EXCEPT ![p].pc = "innerLock"]
    /\ UNCHANGED cmap /\ MapLockUnchanged

\* the loop is over: cmap.mu.RUnlock() or cmap.mu.Unlock(); the call returns
Finish(p) ==
    /\ goroutines[p].pc = "range"
    /\ goroutines[p].todo = {}
    /\ mu' = IF LockOf(goroutines[p].outer) = "RLock"
             THEN [mu EXCEPT !.readers[p] = @ - 1]
             ELSE [mu EXCEPT !.writer = 0]
    /\ goroutines' = [goroutines EXCEPT ![p].pc = "idle"]
    /\ UNCHANGED cmap /\ MapLockUnchanged

MapLockNext == \E p \in Procs :
    \/ IterCall(p)
    \/ PlainCall(p)
    \/ Acquire(p)
    \/ Callback(p)
    \/ InnerRead(p)
    \/ InnerRequest(p)
    \/ Finish(p)

SpecMapLock == MapLockInit /\ [][MapLockNext]_vars

\* C21: a ForEachRead call whose callback calls Get or Size is never stuck
\* for good: while it has not returned, some goroutine can take a step.
C21_ReadCallbackReturns ==
    \A p \in Procs :
        (/\ goroutines[p].pc # "idle"
         /\ goroutines[p].outer = "ForEachRead"
         /\ goroutines[p].inner \in {"Get", "Size"}) => ENABLED MapLockNext

\* C22: once the callback of ForEach has called a method of the map, or the
\* callback of ForEachRead a modifying one, the goroutine stays in that
\* call: it never gets the lock, and ForEach or ForEachRead never returns.
C22_NestedCallDeadlocks ==
    \A p \in Procs :
        (/\ goroutines[p].entered
         /\ \/ goroutines[p].outer = "ForEach"
            \/ goroutines[p].outer = "ForEachRead" /\ goroutines[p].inner \in Modifying)
            => goroutines[p].pc \in {"inner", "innerLock"}

\* the callback of ForEachRead has called Put, which waits for the write
\* lock
C22_Witness ==
    \E p \in Procs :
        /\ goroutines[p].entered
        /\ goroutines[p].outer = "ForEachRead"
        /\ goroutines[p].inner = "Put"
        /\ goroutines[p].pc = "innerLock"

-----------------------------------------------------------------------------
(* SpecListAdd: one goroutine adds its values to the head of an empty list *)
(* with AddFirst, another adds its values to the end with AddLast; when    *)
(* both are done the main goroutine reads Size and ToArray.                *)

\* Most values one goroutine adds.
MaxAdds == 2

\* the sequences of at most n elements of S
SeqsUpTo(S, n) == UNION {[1..k -> S] : k \in 0..n}

Reverse(seq) == [i \in 1..Len(seq) |-> seq[Len(seq) + 1 - i]]

\* result := make([]T, clist.size), filled from the first item on; an item
\* beyond the size is an index out of range
ToArrayBody(l) ==
    LET es == Elements(l)
    IN  IF Len(es) > l.size
        THEN [panic |-> TRUE, ret |-> <<>>]
        ELSE [panic |-> FALSE,
              ret |-> [i \in 1..l.size |-> IF i <= Len(es) THEN es[i] ELSE ZeroValue]]

ListAddInit ==
    /\ NoCache
    /\ NoCollections
    /\ goroutines \in {<<[values |-> a, added |-> 0], [values |-> b, added |-> 0]>> :
                           a \in SeqsUpTo(Values, MaxAdds), b \in SeqsUpTo(Values, MaxAdds)}

ListAddUnchanged == UNCHANGED <<lruVars, returned, cmap, cset, mu, filled, setOp, copied, capacity, mapOp>>

\* the next call of goroutine p returns, leaving the list l
Added(p, l) ==
    /\ clist' = l
    /\ goroutines' = [goroutines EXCEPT ![p].added = goroutines[p].added + 1]
    /\ UNCHANGED listOp /\ ListAddUnchanged

\* list.AddFirst(i), by goroutine 1
AddFirstCall ==
    /\ goroutines[1].added < Len(goroutines[1].values)
    /\ Added(1, AddFirstBody(clist, goroutines[1].values[goroutines[1].added + 1]).l)

\* list.AddLast(i), by goroutine 2
AddLastCall ==
    /\ goroutines[2].added < Len(goroutines[2].values)
    /\ Added(2, AddLastBody(clist, goroutines[2].values[goroutines[2].added + 1]).l)

\* wg.Wait(); list.Size(), list.ToArray()
ShowList ==
    /\ \A p \in 1..2 : goroutines[p].added = Len(goroutines[p].values)
    /\ listOp' = [op |-> "ToArray", size |-> ListSizeBody(clist).ret, array |-> ToArrayBody(clist)]
    /\ UNCHANGED <<clist, goroutines>> /\ ListAddUnchanged

ListAddNext == AddFirstCall \/ AddLastCall \/ ShowList

SpecListAdd == ListAddInit /\ [][ListAddNext]_vars

\* C25: after AddFirst of a1..an by one goroutine and AddLast of b1..bm by
\* another on an empty list, however interleaved, ToArray is
\* an, ..., a1, b1, ..., bm and Size is n + m.
C25_AddFirstAddLast ==
    listOp.op = "ToArray" =>
        /\ ~listOp.array.panic
        /\ listOp.array.ret = Reverse(goroutines[1].values) \o goroutines[2].values
        /\ listOp.size = Len(goroutines[1].values) + Len(goroutines[2].values)

\* both goroutines have added MaxAdds values, the first and the last of
\* each different, and the list has been read
C25_Witness ==
    /\ listOp.op = "ToArray"
    /\ \A p \in 1..2 :
          /\ Len(goroutines[p].values) = MaxAdds
          /\ goroutines[p].values[1] # goroutines[p].values[MaxAdds]

-----------------------------------------------------------------------------
(* The methods of the list that take a condition, under SpecList *)

\* seq without its element at position i
DropAt(seq, i) == [j \in 1..(Len(seq) - 1) |-> IF j < i THEN seq[j] ELSE seq[j + 1]]

\* the positions of seq whose element satisfies needToRemove
Matches(seq, needToRemove) == {i \in 1..Len(seq) : seq[i] \in needToRemove}

\* C26: RemoveFirstOccurrence removes the element of the smallest index
\* that satisfies the condition, RemoveLastOccurrence the one of the
\* largest, and returns its value and that index; the size goes down by
\* one and the other elements keep their order.  When no element satisfies
\* the condition, the call returns (zero value, -1) and the list is as it
\* was.
C26_RemoveOccurrence ==
    [][listOp'.op \in {"RemoveFirstOccurrence", "RemoveLastOccurrence"} =>
          LET es == Elements(clist)
              hits == Matches(es, listOp'.needToRemove)
              at == IF listOp'.op = "RemoveFirstOccurrence"
                    THEN CHOOSE i \in hits : \A j \in hits : i <= j
                    ELSE CHOOSE i \in hits : \A j \in hits : i >= j
          IN  IF hits = {}
              THEN /\ listOp'.ret = ZeroValue /\ listOp'.index = 0 - 1
                   /\ Elements(clist') = es
                   /\ ElementsBack(clist') = ElementsBack(clist)
                   /\ ListSizeBody(clist').ret = ListSizeBody(clist).ret
              ELSE /\ listOp'.ret = es[at] /\ listOp'.index = at - 1
                   /\ Elements(clist') = DropAt(es, at)
                   /\ ElementsBack(clist') = Reverse(DropAt(es, at))
                   /\ ListSizeBody(clist').ret = ListSizeBody(clist).ret - 1]_vars

\* RemoveLastOccurrence has returned index 1, and the element of index 0
\* that is left satisfies the condition too
C26_Witness ==
    /\ listOp.op = "RemoveLastOccurrence"
    /\ listOp.index = 1
    /\ Len(Elements(clist)) >= 2
    /\ Elements(clist)[1] \in listOp.needToRemove
    /\ Elements(clist)[2] \notin listOp.needToRemove

\* C27: RemoveAll removes every element that satisfies the condition and
\* returns their number; the other elements keep their order, and Size is
\* the length of ToArray afterwards.
C27_RemoveAll ==
    [][listOp'.op = "RemoveAll" =>
          LET es == Elements(clist)
              IsKept(value) == value \notin listOp'.needToRemove
          IN  /\ Elements(clist') = SelectSeq(es, IsKept)
              /\ ElementsBack(clist') = Reverse(SelectSeq(es, IsKept))
              /\ listOp'.ret = Cardinality(Matches(es, listOp'.needToRemove))
              /\ ~ToArrayBody(clist').panic
              /\ ListSizeBody(clist').ret = Len(ToArrayBody(clist').ret)
              /\ ToArrayBody(clist').ret = SelectSeq(es, IsKept)]_vars

\* RemoveAll has removed two elements and left one
C27_Witness ==
    /\ listOp.op = "RemoveAll"
    /\ listOp.ret = 2
    /\ Len(Elements(clist)) = 1

-----------------------------------------------------------------------------
(* SpecSetCalls: the calls AddAll and Clear of one set, one at a time *)

\* for _, value := range values { if _, ok := cset.mp[value]; !ok {
\* cset.mp[value] = struct{}{}; changed = true } }, from values[i] on
RECURSIVE AddAllLoop(_, _, _, _)
AddAllLoop(s, values, i, changed) ==
    IF i > Len(values) THEN [s |-> s, ok |-> changed]
    ELSE IF ~ContainsBody(s, values[i])
         THEN AddAllLoop(s \cup {values[i]}, values, i + 1, TRUE)
         ELSE AddAllLoop(s, values, i + 1, changed)

\* changed is what Add returns for the last value
AddAllBody_lastDecides(s, values) ==
    [s |-> AddAllLoop(s, values, 1, FALSE).s,
     ok |-> Len(values) > 0 /\ ~ContainsBody(s, values[Len(values)])]

AddAllBody(s, values) == AddAllLoop(s, values, 1, FALSE)

\* cset.mp = make(map[T]struct{})
SetClearBody(s) == {}

SetCallsInit ==
    /\ NoCache
    /\ NoCollections
    /\ goroutines = <<>>

SetCallsUnchanged ==
    UNCHANGED <<lruVars, goroutines, clist, listOp, returned, cmap, mu, filled, copied, capacity, mapOp>>

AddAll == \E values \in SeqsUpTo(Counted, MaxAdds) :
    LET r == AddAllBody(cset, values)
    IN  /\ cset' = r.s
        /\ setOp' = [op |-> "AddAll", values |-> values, ok |-> r.ok, old |-> cset]
        /\ SetCallsUnchanged

SetClear ==
    /\ cset' = SetClearBody(cset)
    /\ setOp' = [op |-> "Clear"]
    /\ SetCallsUnchanged

SetCallsNext == AddAll \/ SetClear

SpecSetCalls == SetCallsInit /\ [][SetCallsNext]_vars

\* C28: AddAll(values...) returns true exactly when one of the values was
\* not in the set; afterwards the set holds the values and what it held
\* before, and Size has grown by the number of distinct new values.
C28_AddAll ==
    [][setOp'.op = "AddAll" =>
          LET given == {setOp'.values[i] : i \in 1..Len(setOp'.values)}
              new == given \ cset
          IN  /\ setOp'.ok = (new # {})
              /\ \A value \in Counted : ContainsBody(cset', value) = (value \in given \cup cset)
              /\ SetSizeBody(cset') = SetSizeBody(cset) + Cardinality(new)]_vars

\* AddAll has returned true for two values of which the first was new and
\* the last was in the set, old, before the call
C28_Witness ==
    /\ setOp.op = "AddAll"
    /\ setOp.ok
    /\ Len(setOp.values) = 2
    /\ setOp.values[1] \notin setOp.old
    /\ setOp.values[2] \in setOp.old

-----------------------------------------------------------------------------
(* The links of the order list of the cache, under Spec *)

\* C29: after every call, head and tail are nil exactly when the cache is
\* empty; otherwise head.prev and tail.next are nil, the walk by next from
\* head ends at tail, each entry of it is the prev of its next, the walk by
\* prev from tail is its reverse, no entry is met twice, and head is tail
\* when there is one entry.
C29_WellFormedChain ==
    LET w == Walk(heap, head, {})
        back == WalkBack(heap, tail, {})
    IN  /\ (head = Nil) = (SizeBody(Cur).ret = 0)
        /\ (tail = Nil) = (SizeBody(Cur).ret = 0)
        /\ head # Nil =>
              /\ heap[head].prev = Nil
              /\ heap[tail].next = Nil
              /\ w[Len(w)] = tail
              /\ \A i \in 1..(Len(w) - 1) :
                    heap[w[i]].next = w[i + 1] /\ heap[w[i + 1]].prev = w[i]
              /\ back = Reverse(w)
              /\ Cardinality(Range(w)) = Len(w)
              /\ Len(w) = SizeBody(Cur).ret
              /\ Len(w) = 1 => head = tail

\* a call has put an entry at the head of a full cache of two or more and
\* removed the tail
C29_Witness ==
    /\ lastOp.evicted # <<>>
    /\ lastOp.op \in {"Put", "PutIfAbsent"}
    /\ SizeBody(Cur).ret >= 2
    /\ head # tail

-----------------------------------------------------------------------------
(* SpecEntityList: the methods of one entityList, called one at a time on  *)
(* entries with the keys 1..MaxEntities.                                   *)

\* Most entries in the list.
MaxEntities == 4

\* the entries of the list, from head to tail
Entries == Range(Walk(heap, head, {}))

EntityListInit ==
    /\ NoCache
    /\ NoCollections
    /\ goroutines = <<>>

\* the method op called with the entry of key returns, leaving the list c
EntityListReturn(op, key, c) ==
    LET after == Collect(c)
    IN  /\ heap' = after.heap
        /\ head' = after.head
        /\ tail' = after.tail
        /\ lastOp' = [op |-> op, key |-> key, pre |-> Order(heap, head)]
        /\ UNCHANGED <<mp, limit, inserted, recent, goroutines, collVars>>

\* list.setHead(entity) with a new entry, its key the smallest not in the
\* list
SetHeadCall ==
    /\ Cardinality(Entries) < MaxEntities
    /\ LET key == CHOOSE k \in 1..MaxEntities :
                      /\ \A e \in Entries : heap[e].key # k
                      /\ \A j \in 1..(k - 1) : \E e \in Entries : heap[e].key = j
           a == Allocate(Cur, key, ZeroValue)
       IN  EntityListReturn("setHead", key, setHead(a.c, a.ref))

MoveToHeadCall == \E entity \in Entries :
    EntityListReturn("moveToHead", heap[entity].key, moveToHead(Cur, entity))

RemoveEntityCall == \E entity \in Entries :
    EntityListReturn("removeEntity", heap[entity].key, removeEntity(Cur, entity))

ClearCall == EntityListReturn("clear", 0, clear(Cur))

EntityListNext == SetHeadCall \/ MoveToHeadCall \/ RemoveEntityCall \/ ClearCall

SpecEntityList == EntityListInit /\ [][EntityListNext]_vars

\* C30: moveToHead(e) on the head leaves the list as it is; on another
\* entry of the list it makes e the head, with e.prev nil, the other
\* entries keeping their order, and the predecessor of e the tail when e
\* was the tail.
C30_MoveToHead ==
    [][lastOp'.op = "moveToHead" =>
          LET pre == Order(heap, head)
              post == Order(heap', head')
              key == lastOp'.key
          IN  IF pre[1] = key
              THEN UNCHANGED <<heap, head, tail>>
              ELSE /\ heap'[head'].key = key
                   /\ heap'[head'].prev = Nil
                   /\ post = <<key>> \o Without(pre, key)
                   /\ OrderBack(heap', tail') = Reverse(post)
                   /\ heap'[tail'].next = Nil
                   /\ heap'[tail'].key = (IF pre[Len(pre)] = key
                                          THEN pre[Len(pre) - 1]
                                          ELSE pre[Len(pre)])]_vars

\* moveToHead has moved the third of four entries
C30_Witness ==
    /\ lastOp.op = "moveToHead"
    /\ Len(lastOp.pre) = 4
    /\ lastOp.key = lastOp.pre[3]
    /\ Order(heap, head) = <<lastOp.pre[3], lastOp.pre[1], lastOp.pre[2], lastOp.pre[4]>>

\* C31: removeEntity(e) takes e out of the list: the entries before and
\* after it are linked to each other, head is the former successor of e
\* when e was the head, tail the former predecessor when e was the tail,
\* and head and tail are nil when e was the only entry.
C31_RemoveEntity ==
    [][lastOp'.op = "removeEntity" =>
          LET pre == Order(heap, head)
              post == Order(heap', head')
              key == lastOp'.key
              n == Len(pre)
          IN  /\ post = Without(pre, key)
              /\ OrderBack(heap', tail') = Reverse(post)
              /\ \A i \in 1..(Len(post) - 1) :
                    LET w == Walk(heap', head', {})
                    IN  heap'[w[i]].next = w[i + 1] /\ heap'[w[i + 1]].prev = w[i]
              /\ IF n = 1
                 THEN head' = Nil /\ tail' = Nil
                 ELSE /\ heap'[head'].key = (IF pre[1] = key THEN pre[2] ELSE pre[1])
                      /\ heap'[tail'].key = (IF pre[n] = key THEN pre[n - 1] ELSE pre[n])
                      /\ heap'[head'].prev = Nil
                      /\ heap'[tail'].next = Nil]_vars

\* removeEntity has taken the tail out of a list of three or more entries
C31_Witness ==
    /\ lastOp.op = "removeEntity"
    /\ Len(lastOp.pre) >= 3
    /\ lastOp.key = lastOp.pre[Len(lastOp.pre)]
    /\ Order(heap, head) = SubSeq(lastOp.pre, 1, Len(lastOp.pre) - 1)

-----------------------------------------------------------------------------
(* SpecLruLock: the lock of the cache, lru.mu.  Goroutine 1 calls Size,    *)
(* the others call Put and PutIfAbsent.  An inserting call is four steps:  *)
(* it asks for the write lock, takes it, stores the entry (or finds the    *)
(* key), and evicts the tail if needed and unlocks.  Size is three: it     *)
(* is called, takes the read lock, reads len(lru.mp) and unlocks.  Size    *)
(* does not read the values: every call puts the zero value.               *)

\* lru.mp[entity.key] = entity; lru.entities.setHead(entity)
storeEntity(c, entity) ==
    setHead([c EXCEPT !.mp = MapPut(c.mp, c.heap[entity].key, entity)], entity)

\* if len(lru.mp) > lru.limit { lru.evictEntity(lru.entities.tail) }
evictOverLimit(c, lim) ==
    IF MapLen(c.mp) > lim THEN evictEntity(c, c.tail) ELSE c

LruLockIdle == [pc |-> "idle", ret |-> 0, sized |-> FALSE]

LruLockInit ==
    /\ heap = <<>>
    /\ mp = <<>>
    /\ head = Nil
    /\ tail = Nil
    /\ limit \in Limits
    /\ lastOp = [op |-> "NewLRU", key |-> 0, value |-> ZeroValue, ok |-> TRUE,
                 ret |-> ZeroValue, evicted |-> <<>>, pre |-> <<>>]
    /\ inserted = [clean |-> TRUE, keys |-> <<>>]
    /\ recent = <<>>
    /\ goroutines = [p \in Procs |-> LruLockIdle]
    /\ NoCollections

LruLockUnchanged ==
    UNCHANGED <<limit, lastOp, inserted, recent, clist, listOp, returned, cmap, cset, filled, setOp, copied, capacity, mapOp>>

\* the cache is c from now on
Becomes(c) ==
    LET after == Collect(c)
    IN  heap' = after.heap /\ mp' = after.mp /\ head' = after.head /\ tail' = after.tail

\* lru.Put(key, value) or lru.PutIfAbsent(key, value): lru.mu.Lock() is
\* called
InsertCall(p) ==
    /\ p # 1 /\ goroutines[p].pc = "idle"
    /\ CanRequest(mu)
    /\ mu' = [mu EXCEPT !.pending = p]
    /\ goroutines' = [goroutines EXCEPT ![p].pc = "Lock"]
    /\ UNCHANGED <<heap, mp, head, tail>> /\ LruLockUnchanged

\* lru.mu.Lock() returns
InsertLock(p) ==
    /\ goroutines[p].pc = "Lock"
    /\ CanLock(mu, p)
    /\ mu' = [mu EXCEPT !.pending = 0, !.writer = p]
    /\ goroutines' = [goroutines EXCEPT ![p].pc = "locked"]
    /\ UNCHANGED <<heap, mp, head, tail>> /\ LruLockUnchanged

\* entity, ok := lru.mp[key]; a new entry is stored and made the head; for
\* a present key the call goes on to its end and unlocks
InsertStore(p) == \E op \in {"Put", "PutIfAbsent"}, key \in Keys :
    /\ goroutines[p].pc = "locked"
    /\ IF ~Has(mp, key)
       THEN LET a == Allocate(Cur, key, ZeroValue)
            IN  /\ Becomes(storeEntity(a.c, a.ref))
                /\ goroutines' = [goroutines EXCEPT ![p].pc = "stored"]
                /\ UNCHANGED mu
       ELSE /\ Becomes(IF op = "Put"
                       THEN PutBody(Cur, limit, key, ZeroValue).c
                       ELSE PutIfAbsentBody(Cur, limit, key, ZeroValue).c)
            /\ goroutines' = [goroutines EXCEPT ![p].pc = "idle"]
            /\ mu' = [mu EXCEPT !.writer = 0]
    /\ LruLockUnchanged

\* the rest of putEntity, and lru.mu.Unlock()
InsertEvict(p) ==
    /\ goroutines[p].pc = "stored"
    /\ Becomes(evictOverLimit(Cur, limit))
    /\ goroutines' = [goroutines EXCEPT ![p].pc = "idle"]
    /\ mu' = [mu EXCEPT !.writer = 0]
    /\ LruLockUnchanged

\* lru.Size() is called
SizeInvoke(p) ==
    /\ p = 1 /\ goroutines[p].pc = "idle"
    /\ goroutines' = [goroutines EXCEPT ![p].pc = "RLock"]
    /\ UNCHANGED <<heap, mp, head, tail, mu>> /\ LruLockUnchanged

\* lru.mu.RLock() returns
SizeRLock(p) ==
    /\ goroutines[p].pc = "RLock"
    /\ CanRLock(mu)
    /\ mu' = [mu EXCEPT !.readers[p] = @ + 1]
    /\ goroutines' = [goroutines EXCEPT ![p].pc = "RLocked"]
    /\ UNCHANGED <<heap, mp, head, tail>> /\ LruLockUnchanged

\* return len(lru.mp), with the deferred lru.mu.RUnlock()
SizeRead(p) ==
    /\ goroutines[p].pc = "RLocked"
    /\ mu' = [mu EXCEPT !.readers[p] = @ - 1]
    /\ goroutines' = [goroutines EXCEPT ![p].pc = "idle", ![p].ret = SizeBody(Cur).ret,
                                        ![p].sized = TRUE]
    /\ UNCHANGED <<heap, mp, head, tail>> /\ LruLockUnchanged

LruLockNext == \E p \in Procs :
    \/ InsertCall(p)
    \/ InsertLock(p)
    \/ InsertStore(p)
    \/ InsertEvict(p)
    \/ SizeInvoke(p)
    \/ SizeRLock(p)
    \/ SizeRead(p)

SpecLruLock == LruLockInit /\ [][LruLockNext]_vars

\* C32: a Size call that runs while other goroutines call Put and
\* PutIfAbsent never returns more than limit.
C32_SizeWithinLimit ==
    \A p \in Procs : goroutines[p].sized => goroutines[p].ret <= limit

\* a Size call has returned limit, and the next one waits for the read lock
\* while an inserting call holds the write lock with limit + 1 keys in the
\* index
C32_Witness ==
    /\ goroutines[1].sized /\ goroutines[1].ret = limit
    /\ goroutines[1].pc = "RLock"
    /\ \E p \in Procs : goroutines[p].pc = "stored" /\ mu.writer = p
    /\ MapLen(mp) = limit + 1

-----------------------------------------------------------------------------
(* SpecLowLimit: the calls of a cache made by NewLRU(limit) with a limit   *)
(* of at most 1, zero and negative limits included, one call at a time.    *)

LowLimits == (0 - MaxLimit)..1

LowLimitInit ==
    /\ heap = <<>>
    /\ mp = <<>>
    /\ head = Nil
    /\ tail = Nil
    /\ limit \in LowLimits
    /\ lastOp = [op |-> "NewLRU", key |-> 0, value |-> ZeroValue, ok |-> TRUE,
                 ret |-> ZeroValue, evicted |-> <<>>, pre |-> <<>>]
    /\ inserted = [clean |-> TRUE, keys |-> <<>>]
    /\ recent = <<>>
    /\ goroutines = <<>>
    /\ NoCollections

SpecLowLimit == LowLimitInit /\ [][Next]_vars

\* C33: in a cache with limit <= 0, after every call Size is 0 and head and
\* tail are nil; every Put and PutIfAbsent has evicted the entry it
\* inserted, a Get of its key returns (false, zero value), and PutIfAbsent
\* has returned (true, value).
C33_NothingIsKept ==
    limit <= 0 =>
        /\ SizeBody(Cur).ret = 0
        /\ head = Nil /\ tail = Nil
        /\ lastOp.op \in {"Put", "PutIfAbsent"} =>
              /\ Len(lastOp.evicted) = 1
              /\ lastOp.evicted[1].key = lastOp.key
              /\ lastOp.evicted[1].value = lastOp.value
              /\ ~GetBody(Cur, lastOp.key).ok
              /\ GetBody(Cur, lastOp.key).ret = ZeroValue
        /\ lastOp.op = "PutIfAbsent" => lastOp.ok /\ lastOp.ret = lastOp.value
        /\ lastOp.op = "Get" => ~lastOp.ok /\ lastOp.ret = ZeroValue

\* PutIfAbsent has returned for a value other than the zero value in a
\* cache with a negative limit
C33_Witness ==
    /\ limit < 0
    /\ lastOp.op = "PutIfAbsent"
    /\ lastOp.value # ZeroValue
    /\ lastOp.evicted # <<>>

-----------------------------------------------------------------------------
(* SpecCopy: the caller of Copy keeps the map it was given while the cache *)
(* is used further, one call at a time.                                    *)

\* the call op returns, leaving the cache c
CacheReturn(op, c) ==
    /\ Becomes(c)
    /\ lastOp' = [op |-> op]
    /\ UNCHANGED <<limit, inserted, recent, goroutines,
                   clist, listOp, returned, cmap, cset, mu, filled, setOp,
                   capacity, mapOp>>

CachePut == \E key \in Keys, value \in Values :
    CacheReturn("Put", PutBody(Cur, limit, key, value).c) /\ UNCHANGED copied

CachePutIfAbsent == \E key \in Keys, value \in Values :
    CacheReturn("PutIfAbsent", PutIfAbsentBody(Cur, limit, key, value).c) /\ UNCHANGED copied

CacheGet == \E key \in Keys :
    CacheReturn("Get", GetBody(Cur, key).c) /\ UNCHANGED copied

CacheEvict == \E key \in Keys :
    CacheReturn("Evict", EvictBody(Cur, key).c) /\ UNCHANGED copied

CacheClear == CacheReturn("Clear", ClearBody(Cur).c) /\ UNCHANGED copied

\* m := lru.Copy()
CacheCopy ==
    LET r == CopyBody(Cur)
    IN  CacheReturn("Copy", r.c) /\ copied' = r.ret

CopyNext ==
    CachePut \/ CachePutIfAbsent \/ CacheGet \/ CacheEvict \/ CacheClear \/ CacheCopy

SpecCopy == Init /\ [][CopyNext]_vars

\* C34: Copy returns a map of exactly the keys of the cache, each with its
\* value, and leaves the keys, the values and the head-to-tail order of the
\* cache as they were; the calls made afterwards leave the map returned as
\* it was.
C34_CopyIsASnapshot ==
    [][/\ lastOp'.op = "Copy" =>
             /\ DOMAIN copied' = DOMAIN mp
             /\ \A key \in DOMAIN mp : copied'[key] = heap[mp[key]].value
             /\ UNCHANGED <<heap, mp, head, tail, limit>>
       /\ lastOp'.op # "Copy" => copied' = copied]_vars

\* the cache has changed since Copy returned a map of two keys, one of them
\* with a value other than the zero value: it no longer holds one of the
\* keys, and holds another value for the other
C34_Witness ==
    /\ lastOp.op # "Copy"
    /\ \E j \in DOMAIN copied, k \in DOMAIN copied :
          /\ j # k
          /\ j \notin DOMAIN mp
          /\ k \in DOMAIN mp /\ heap[mp[k]].value # copied[k]

-----------------------------------------------------------------------------
(* The fields of the list and the results of its calls, under SpecList *)

\* C35: after every call made one at a time, size is the number of items
\* reached from first; first and last are nil exactly when size is 0;
\* first.prev and last.next are nil; a list of one item has first = last
\* with both links nil.
C35_ListFields ==
    LET reached == ItemsFrom(clist.items, clist.first)
    IN  /\ clist.size = Len(reached)
        /\ (clist.first = Nil) = (clist.size = 0)
        /\ (clist.last = Nil) = (clist.size = 0)
        /\ clist.size > 0 =>
              /\ clist.items[clist.first].prev = Nil
              /\ clist.items[clist.last].next = Nil
              /\ reached[Len(reached)] = clist.last
        /\ clist.size = 1 =>
              /\ clist.first = clist.last
              /\ clist.items[clist.first].next = Nil
              /\ clist.items[clist.last].prev = Nil

\* RemoveFirst has left one item of a list of two
C35_Witness ==
    /\ listOp.op = "RemoveFirst"
    /\ listOp.ok
    /\ clist.size = 1
    /\ clist.first # Nil

\* C36: for 0 <= index < Size(), Get(index) returns the element of ToArray()
\* at that index and leaves the list as it was; Remove(index) returns that
\* element and leaves ToArray() as it was without that position, Size() one
\* less.  On a list that is not empty RemoveFirst and RemoveLast return and
\* leave what Remove(0) and Remove(Size() - 1) do; on an empty list they
\* return (zero value, false) and leave the list empty.
C36_GetAndRemove ==
    [][LET array == ToArrayBody(clist).ret
           size == ListSizeBody(clist).ret
           inRange == listOp'.index >= 0 /\ listOp'.index < size
           same(index) ==
               LET r == ListRemoveBody(clist, index)
               IN  /\ r.err = NoError
                   /\ listOp'.ret = r.ret
                   /\ listOp'.ok
                   /\ clist' = ListCollect(r.l)
                   /\ ToArrayBody(clist').ret = DropAt(array, index + 1)
       IN  /\ ~ToArrayBody(clist).panic
           /\ listOp'.op = "Get" /\ inRange =>
                 /\ listOp'.ret = array[listOp'.index + 1]
                 /\ listOp'.err = NoError
                 /\ clist' = clist
           /\ listOp'.op = "Remove" /\ inRange =>
                 /\ listOp'.ret = array[listOp'.index + 1]
                 /\ listOp'.err = NoError
                 /\ ToArrayBody(clist').ret = DropAt(array, listOp'.index + 1)
                 /\ ListSizeBody(clist').ret = size - 1
           /\ listOp'.op = "RemoveFirst" /\ size > 0 => same(0)
           /\ listOp'.op = "RemoveLast" /\ size > 0 => same(size - 1)
           /\ listOp'.op \in {"RemoveFirst", "RemoveLast"} /\ size = 0 =>
                 /\ listOp'.ret = ZeroValue
                 /\ ~listOp'.ok
                 /\ clist' = clist
                 /\ ToArrayBody(clist').ret = <<>>]_vars

\* Remove(1) has taken the middle element, which differs from the first,
\* out of a list of three
C36_Witness ==
    /\ listOp.op = "Remove"
    /\ listOp.index = 1
    /\ listOp.err = NoError
    /\ clist.size = 2
    /\ listOp.ret # Elements(clist)[1]

-----------------------------------------------------------------------------
(* SpecMapCalls: Put, Remove, TrimToSize and Clear of one ConcurrentMap, *)
(* one call at a time.                                                    *)

\* the capacity NewConcurrentMapCapacity is given
Capacities == (0 - 1)..Count

\* for k, v := range cmap.mp { tmp[k] = v }, todo being the keys still to
\* come
RECURSIVE CopyInto(_, _, _)
CopyInto(tmp, m, todo) ==
    IF todo = {} THEN tmp
    ELSE LET k == CHOOSE key \in todo : TRUE
         IN  CopyInto(MapPut(tmp, k, m[k]), m, todo \ {k})

\* cmap.mp = tmp without the loop
TrimToSizeBody_noCopy(m) == [m |-> <<>>, hint |-> MapLen(m)]

TrimToSizeBody(m) == [m |-> CopyInto(<<>>, m, DOMAIN m), hint |-> MapLen(m)]

MapClearBody(m, n) ==
    IF n > 0 THEN [m |-> <<>>, hint |-> n] ELSE [m |-> <<>>, hint |-> 0]

MapSizeBody(m) == MapLen(m)

MapIsEmptyBody(m) == MapLen(m) = 0

MapCallsInit ==
    /\ NoCache
    /\ OtherCollections
    /\ goroutines = <<>>
    /\ capacity \in Capacities
    /\ mapOp = NewMap(capacity)

\* the call op returns, leaving the map m, allocated with size hint
MapReturn(op, key, value, m, hint) ==
    /\ cmap' = m
    /\ mapOp' = [op |-> op, key |-> key, value |-> value, hint |-> hint, old |-> cmap]
    /\ UNCHANGED <<lruVars, goroutines, clist, listOp, returned, cset, mu, filled, setOp,
                   copied, capacity>>

MapPutCall == \E key \in Counted, value \in Values :
    MapReturn("Put", key, value, MapPut(cmap, key, value), mapOp.hint)

MapRemoveCall == \E key \in Counted :
    MapReturn("Remove", key, 0, MapDelete(cmap, key), mapOp.hint)

TrimToSize ==
    LET r == TrimToSizeBody(cmap) IN MapReturn("TrimToSize", 0, 0, r.m, r.hint)

MapClear ==
    LET r == MapClearBody(cmap, capacity) IN MapReturn("Clear", 0, 0, r.m, r.hint)

MapCallsNext == MapPutCall \/ MapRemoveCall \/ TrimToSize \/ MapClear

SpecMapCalls == MapCallsInit /\ [][MapCallsNext]_vars

\* C37: TrimToSize leaves the keys of the map, the value of every key and
\* Size() as they were; Clear leaves the map empty, Size() 0 and IsEmpty()
\* true, and the capacity field as it was.
C37_TrimAndClear ==
    [][/\ mapOp'.op = "TrimToSize" =>
             /\ DOMAIN cmap' = DOMAIN cmap
             /\ \A key \in DOMAIN cmap :
                    MapGetBody(cmap', key) = MapGetBody(cmap, key)
             /\ MapSizeBody(cmap') = MapSizeBody(cmap)
       /\ mapOp'.op = "Clear" =>
             /\ DOMAIN cmap' = {}
             /\ MapSizeBody(cmap') = 0
             /\ MapIsEmptyBody(cmap')
             /\ capacity' = capacity]_vars

\* TrimToSize has returned for a map of two keys, one of them with the zero
\* value, created with a capacity above its size
C37_Witness ==
    /\ mapOp.op = "TrimToSize"
    /\ MapLen(mapOp.old) = 2
    /\ mapOp.hint < capacity
    /\ \E j, k \in DOMAIN mapOp.old : mapOp.old[j] = ZeroValue /\ mapOp.old[k] # ZeroValue

-----------------------------------------------------------------------------
(* The entry evictEntity has taken out, before the collector frees it *)

\* C38: when Evict, or a Put or PutIfAbsent that goes over the limit, has
\* taken an entry out, prev and next of that entry are nil, no entry met
\* from head or from tail or held by the index links to it, and it is not
\* reachable from the cache.
C38_EvictedIsDetached ==
    [][lastOp'.op \in {"Put", "PutIfAbsent", "Evict"} =>
          LET c == IF lastOp'.op = "Put"
                   THEN PutBody(Cur, limit, lastOp'.key, lastOp'.value).c
                   ELSE IF lastOp'.op = "PutIfAbsent"
                   THEN PutIfAbsentBody(Cur, limit, lastOp'.key, lastOp'.value).c
                   ELSE EvictBody(Cur, lastOp'.key).c
              kept == Range(Walk(c.heap, c.head, {}))
                          \cup Range(WalkBack(c.heap, c.tail, {}))
                          \cup Range(c.mp)
          IN  /\ (c.ev # Nil) = (lastOp'.evicted # <<>>)
              /\ c.ev # Nil =>
                    /\ lastOp'.evicted[1] = c.heap[c.ev]
                    /\ c.heap[c.ev].prev = Nil
                    /\ c.heap[c.ev].next = Nil
                    /\ c.ev \notin kept
                    /\ \A e \in kept : c.heap[e].prev # c.ev /\ c.heap[e].next # c.ev
                    /\ c.ev \notin Reach(c)]_vars

\* Evict has taken one of two entries out
C38_Witness ==
    /\ lastOp.op = "Evict"
    /\ lastOp.ok
    /\ lastOp.evicted # <<>>
    /\ Len(lastOp.pre) = 2
    /\ MapLen(mp) = 1

-----------------------------------------------------------------------------
(* SpecChain: the methods of lruEntity on a chain of entries that no       *)
(* entityList holds.  head and tail stand for the two ends of the chain,   *)
(* found by walking from an entry of it; an entry that has removed itself  *)
(* is let go.                                                              *)

\* the entry met last when walking from e along prev, and along next
FirstOf(h, e) == LET w == WalkBack(h, e, {}) IN w[Len(w)]

LastOf(h, e) == LET w == Walk(h, e, {}) IN w[Len(w)]

\* the keys no entry of the chain has
FreeKeys == {k \in 1..MaxEntities : \A e \in Entries : heap[e].key # k}

\* the method op of the entry of key, called with the entry of key other
\* (0 when it takes none), returns; h is the heap it leaves and member an
\* entry of the chain, Nil when the chain has no entry left
ChainReturn(op, key, other, h, member) ==
    LET c == [heap |-> h, mp |-> <<>>,
              head |-> IF member = Nil THEN Nil ELSE FirstOf(h, member),
              tail |-> IF member = Nil THEN Nil ELSE LastOf(h, member),
              limit |-> limit, ev |-> Nil]
        after == Collect(c)
    IN  /\ heap' = after.heap
        /\ head' = after.head
        /\ tail' = after.tail
        /\ lastOp' = [op |-> op, key |-> key, other |-> other, pre |-> Order(heap, head)]
        /\ UNCHANGED <<mp, limit, inserted, recent, goroutines, collVars>>

\* &lruEntity[K, V]{key: key, value: value}, a chain of one entry
CreateEntity == \E key \in FreeKeys :
    /\ head = Nil
    /\ LET a == Allocate(Cur, key, ZeroValue)
       IN  ChainReturn("createEntity", key, 0, a.c.heap, a.ref)

\* e.insertBefore(entity), entity being new
InsertBeforeCall == \E e \in Entries, key \in FreeKeys :
    LET a == Allocate(Cur, key, ZeroValue)
    IN  ChainReturn("insertBefore", heap[e].key, key, insertBefore(a.c.heap, e, a.ref), e)

\* e.insertAfter(entity), entity being new
InsertAfterCall == \E e \in Entries, key \in FreeKeys :
    LET a == Allocate(Cur, key, ZeroValue)
    IN  ChainReturn("insertAfter", heap[e].key, key, insertAfter(a.c.heap, e, a.ref), e)

\* e.removeYourself(); what is left of the chain is found from a neighbour
\* of e
RemoveYourselfCall == \E e \in Entries :
    LET member == IF heap[e].prev # Nil THEN heap[e].prev ELSE heap[e].next
    IN  ChainReturn("removeYourself", heap[e].key, 0, removeYourself(heap, e), member)

ChainNext == CreateEntity \/ InsertBeforeCall \/ InsertAfterCall \/ RemoveYourselfCall

SpecChain == EntityListInit /\ [][ChainNext]_vars

\* seq with x put at position i
InsertAt(seq, i, x) == SubSeq(seq, 1, i - 1) \o <<x>> \o SubSeq(seq, i, Len(seq))

\* the position of key in seq
Position(seq, key) == CHOOSE i \in 1..Len(seq) : seq[i] = key

\* C39: e.insertBefore(x) with x a new entry puts x directly before e,
\* e.insertAfter(x) directly after e, and e.removeYourself() takes e out;
\* the other entries keep their order, every entry is the prev of its next
\* and the next of its prev, and the first entry has no prev and the last
\* no next.
C39_EntityLinks ==
    [][lastOp'.op \in {"insertBefore", "insertAfter", "removeYourself"} =>
          LET pre == Order(heap, head)
              post == Order(heap', head')
              w == Walk(heap', head', {})
              key == lastOp'.key
          IN  /\ lastOp'.op = "insertBefore" =>
                    post = InsertAt(pre, Position(pre, key), lastOp'.other)
              /\ lastOp'.op = "insertAfter" =>
                    post = InsertAt(pre, Position(pre, key) + 1, lastOp'.other)
              /\ lastOp'.op = "removeYourself" =>
                    post = Without(pre, key)
              /\ OrderBack(heap', tail') = Reverse(post)
              /\ DOMAIN heap' = Range(w)
              /\ \A i \in 1..(Len(w) - 1) :
                    heap'[w[i]].next = w[i + 1] /\ heap'[w[i + 1]].prev = w[i]
              /\ w # <<>> =>
                    /\ heap'[w[1]].prev = Nil
                    /\ heap'[w[Len(w)]].next = Nil]_vars

\* insertAfter was called on an entry that had a successor
C39_Witness ==
    /\ lastOp.op = "insertAfter"
    /\ Len(lastOp.pre) >= 2
    /\ lastOp.pre[Len(lastOp.pre)] # lastOp.key
    /\ Len(Order(heap, head)) = Len(lastOp.pre) + 1

=============================================================================
